---- MODULE Spec2Model ----
(***************************************************************************)
(* The concurrent upload engine of worker/upload.go as a state machine:    *)
(* the object-upload driver (uploadManager.Upload), the repair entry point *)
(* (uploadManager.Migrate), the slab coordinators (upload.uploadSlab,      *)
(* upload.uploadShards and the slabUpload methods), the overdrive timer    *)
(* goroutine of every slab and the per-contract uploader workers           *)
(* (uploader.start).  Every goroutine has a program counter; an action is  *)
(* one step of one goroutine between two points where another goroutine   *)
(* can observe or change shared state (a mutex section, a channel send or  *)
(* receive, a select).                                                     *)
(* Three more parts follow the same file: uploadManager.Stop and the       *)
(* caller's cancellation during a call of Upload, the pool of uploader     *)
(* objects through the calls of RefreshUploaders, and the functions of the *)
(* statistics that compute with measured times.                            *)
(*                                                                         *)
(* Abstractions.  Sector data, Merkle roots and keys are not modelled: a   *)
(* stored sector is the id of the contract it was stored through (the      *)
(* core assumes one host per contract), 0 is the zero root.  Wall-clock    *)
(* time is not modelled: a timer may fire at any moment.  The throughput   *)
(* samples that order the pool in uploadManager.uploader are measured      *)
(* durations, and sort.Slice leaves the order of equal estimates open, so  *)
(* the first candidate is any usable uploader.                             *)
(***************************************************************************)
EXTENDS Integers, Sequences, FiniteSets, TLC

(* ------------------------------ bounds -------------------------------- *)

\* rs.TotalShards / len(shards): the number N of shards of a slab
TotalShards == 2
\* rs.MinShards
MinShards == 1
\* rhpv2.SectorSize, scaled down to a few bytes
SectorSize == 2
\* the longest stream a reader supplies, in bytes
MaxBytes == 4
\* the longest stream of whole slabs a reader supplies, in slabs
GateSlabs == 5
\* the contract ids RefreshUploaders can have put in the pool
NumContracts == 3
\* the largest value of the configuration knob mgr.maxOverdrive
MaxOverdrive == 3
\* the uploader objects newUploader creates in the life of a manager
MaxUploaders == 2
\* the contract ids the calls of RefreshUploaders name
NumPoolContracts == 2
\* the longest contract list a call of RefreshUploaders is given
MaxContractsLen == 2
\* the calls of RefreshUploaders in the life of a manager
MaxRefreshes == 3
\* the largest block height a call of RefreshUploaders is given
MaxHeight == 1
\* the most shard uploads that wait in the queue of one uploader object
MaxQueue == 1
\* the consecutive failures and the data points counted per uploader object
MaxTracked == 1
\* the largest cached p90 of an uploader, in halves of a byte per millisecond
MaxP90x2 == 6
\* the longest queue of an uploader whose estimate is computed
MaxQueued == 2
\* the longest elapsed time of a sector upload or of a slab, in milliseconds
MaxMs == 3
\* the uploaders of the pool whose estimates are sorted
NumSorted == 2
\* the sector uploads one uploader executes while its statistics are followed
MaxExecuted == 4

(* ------------------------- program constants -------------------------- *)

\* the older-slabs gate of uploadManager.uploader: len(parents) < 3
MaxParents == 3
\* math.MaxInt64, scaled like SectorSize to the integers of the model: what
\* estimate needs of it is that it exceeds every outstanding byte count
MaxInt64 == 2147483647
\* rhpv2.LeafSize, scaled like SectorSize: the unit of the stripes of a slab
\* and of the blocks of the keystream
LeafSize == 2
\* the values of a uint32, scaled to four bits: the fields Offset and Length
\* of a SlabSlice and the arithmetic of SectorRegion wrap at this modulus
Uint32 == 16
\* len(Float64Data) of newDataPoints, the ring of 20 samples, scaled
RingLen == 2
\* the data shards of the slab whose stripes are followed
NumStripeShards == 2
\* the largest sample a stats window is given
MaxSample == 2
\* the samples tracked into a stats window in one run
MaxWindowTracks == 3
\* len(Float64Data) of newDataPoints, as it is: the window whose p90 is
\* computed
WindowLen == 20

Contracts == 1..NumContracts
UploaderObjects == 1..MaxUploaders
PoolContracts == 1..NumPoolContracts
Shards == 0..(TotalShards - 1)
\* size := int64(rs.MinShards) * rhpv2.SectorSize
SlabSize == MinShards * SectorSize
MaxSlabs ==
    LET n == (MaxBytes + SlabSize - 1) \div SlabSize
    IN  IF n > GateSlabs THEN n ELSE GateSlabs
\* a slab id is the index of the slab in its upload
Slabs == 0..(MaxSlabs - 1)

NoReq == [sID |-> -1, sectorIndex |-> -1, overdrive |-> FALSE]
ShardUploads == [sID : Slabs, sectorIndex : Shards, overdrive : BOOLEAN]

VARIABLES
    \* the call under study: "upload" (Upload) or "migrate" (Migrate)
    entry,
    \* environment: the contracts whose host fails every UploadSector
    bad,
    \* uploadManager
    uploaders,          \* mgr.uploaders, as the set of their contract ids
    maxOverdrive,       \* mgr.maxOverdrive
    stopped,            \* mgr.stopChan and the pool's u.stopChan are closed
    \* the pool as a list of uploader objects; an object is a number, in the
    \* order newUploader creates them
    pool,               \* mgr.uploaders
    uFcid,              \* uploader.fcid; 0: the object is not created yet
    uBh,                \* uploader.bh
    uStopChan,          \* uploader.stopChan is closed
    uQueue,             \* len(uploader.queue)
    uSignal,            \* uploader.signalNewUpload holds a token
    uFailures,          \* uploader.consecutiveFailures
    uPoints,            \* the data points tracked in uploader.statsSpeed
    upc,                \* position of the object's uploader.start
    revLock,            \* per contract, the object that holds its revision lock
    refreshes,          \* the calls of RefreshUploaders so far
    lastContracts,      \* the contract ids in the list of the last call
    \* one call of a function of the statistics
    statIn,             \* the call and its inputs
    statOut,            \* its outcome
    \* one slab through the codec of object/slab.go
    plain,              \* the data read for the slab
    key,                \* the keystream of the slab's Key
    bufs,               \* the shards, a missing shard has length 0
    cpc,                \* the codec call that comes next
    lost,               \* the shards that were not downloaded
    written,            \* what Recover wrote
    cerr,               \* the error of Reconstruct or Recover
    \* uploader, per contract id, where the pops of the worker are traced
    skipped,            \* the upload popped last was done and was skipped
    \* the statistics of one uploader through the sector uploads it executes
    consecutiveFailures, \* uploader.consecutiveFailures
    statsSpeed,         \* uploader.statsSpeed: Float64Data and cnt
    executed,           \* the sector uploads executed so far
    lastUpload,         \* the outcome of the sector upload executed last
    lastTracked,        \* the outcome uploader.track was called with last
    trackPanic,         \* uploader.track has divided by zero
    \* one round of the overdrive goroutine of slab 0, with the clock
    sinceOverdrive,     \* time.Since(s.lastOverdrive), in milliseconds
    overdriveTimeout,   \* mgr.overdriveTimeout, in milliseconds
    odOut,              \* what slab.overdrive returned (NoReq: nil)
    opc,                \* position of the round
    \* one call of SlabSlice.SectorRegion
    ssIn,               \* ss.Offset and ss.Length
    ssOut,              \* the pair it returns
    \* the mutexes of the manager, the upload, the slabs, the uploader and the
    \* stats windows, and the goroutines that take them
    holder,             \* per mutex, the task that holds it ("none": free)
    task,               \* per task, the function it runs and the step it is at
    \* one call of stripedJoin on the data shards stripedSplit filled
    joinIn,             \* skip and writeLen
    \* one stats window (dataPoints) of the capacity of newDataPoints
    window,             \* Float64Data, cnt and p90
    p90Out,             \* what percentileP90() returned last
    recomputed,         \* the last call of recompute(): cnt then, and its result
    tracks,             \* the samples tracked into the window so far
    \* uploader, per contract id
    queue,              \* uploader.queue
    signalNewUpload,    \* uploader.signalNewUpload holds a token
    wpc,                \* position of uploader.start
    wcur,               \* the shardUpload the worker executes
    \* upload
    excluded,           \* upload.excluded
    nextReadTrigger,    \* upload.nextReadTrigger holds a token
    doneShardTrigger,   \* upload.doneShardTrigger holds a token
    ongoing,            \* upload.ongoing
    used,               \* upload.used, per slab id
    \* slabUpload, per slab id
    spc,                \* position of uploadSlab / uploadShards
    numInflight,
    numLaunched,
    nextReadTriggered,
    overdriving,
    remaining,          \* the keys of slabUpload.remaining
    sectors,            \* slabUpload.sectors: 0 is the zero root
    errs,               \* slabUpload.errs, as the set of failed hosts
    shardDone,          \* the shard indices whose per-shard context is cancelled
    lidx,               \* the shard index the coordinator is launching
    serr,               \* the error uploadShards returns ("none": the sectors)
    slen,               \* the length read for the slab
    \* the overdrive goroutine of uploadShards, per slab id
    tpc,
    tod,                \* the shard index overdrive() picked
    \* Upload's locals
    dpc,
    slabIndex,
    numSlabs,
    responses,
    respClosed,         \* close(respChan) has run
    ctxDone,            \* the upload's context is cancelled
    retErr,             \* the error Upload / Migrate returns ("none": a result)
    object,             \* o.Slabs of the returned object
    \* the reader
    readerLimit,        \* the most bytes the reader supplies
    readerGrain,        \* its length is a multiple of this
    byteCount,          \* bytes supplied so far
    readerEOF,          \* the reader has nothing left
    \* observers (written, never read, by the actions)
    writes,             \* how often sectors[i] was assigned, per slab
    tokensPut,          \* the tokens the coordinators put on nextReadTrigger
    reads,              \* how often the driver read from the reader
    sched               \* how often a shard of the slab was enqueued, per contract

statVars == <<statIn, statOut>>
codecVars == <<plain, key, bufs, cpc, lost, written, cerr>>
regionVars == <<ssIn, ssOut>>
objectVars == <<codecVars, regionVars>>
trackVars == <<consecutiveFailures, statsSpeed, executed, lastUpload,
               lastTracked, trackPanic>>
roundVars == <<sinceOverdrive, overdriveTimeout, odOut, opc>>
lockVars == <<holder, task>>
windowVars == <<window, p90Out, recomputed, tracks>>
laterVars == <<lockVars, joinIn, windowVars>>
callVars == <<entry, bad, uploaders, maxOverdrive, excluded, readerLimit,
             readerGrain, statVars, objectVars, skipped, trackVars, roundVars,
             laterVars>>
poolVars == <<pool, uFcid, uBh, uStopChan, uQueue, uSignal, uFailures,
             uPoints, upc, revLock, refreshes, lastContracts>>
envVars == <<callVars, stopped, poolVars>>
workerVars == <<queue, signalNewUpload, wpc, wcur>>
chanVars == <<nextReadTrigger, doneShardTrigger>>
coordVars == <<numInflight, numLaunched, nextReadTriggered, overdriving,
               remaining, sectors, errs, shardDone, writes, tokensPut>>
slabVars == <<spc, lidx, serr, slen>>
timerVars == <<tpc, tod>>
driverVars == <<dpc, slabIndex, numSlabs, responses, respClosed, ctxDone,
                retErr, object>>
readerVars == <<byteCount, readerEOF, reads>>

vars == <<envVars, workerVars, chanVars, ongoing, used, sched, coordVars,
          slabVars, timerVars, driverVars, readerVars>>

(* ------------------------------ helpers ------------------------------- *)

Min(a, b) == IF a <= b THEN a ELSE b

\* shardUpload.done: the per-shard context derives from the upload's context
Done(req) == ctxDone \/ req.sectorIndex \in shardDone[req.sID]

\* the outcomes of rl.withRevision(upload.ctx, ..., upload.execute): a bad host
\* fails; an RPC whose context was cancelled meanwhile may fail or complete
Outcomes(u) ==
    IF u \in bad THEN {FALSE}
    ELSE IF Done(wcur[u]) THEN {TRUE, FALSE}
    ELSE {TRUE}

\* variants of upload.canUseUploader with one of its two tests left out
canUseUploaderIgnoringUsed(u, sID) == u \notin excluded

canUseUploaderIgnoringExcluded(u, sID) == u \notin used[sID]

\* upload.canUseUploader
canUseUploader(u, sID) == u \notin excluded /\ u \notin used[sID]

\* the candidates of uploadManager.uploader: the pool filtered by canUseUploader
Candidates(sID) == {u \in uploaders : canUseUploader(u, sID)}

\* the parents of a slab in uploadManager.uploader: the ids of upload.ongoing
\* in front of the slab's own id (all of them when the id is not in the list)
Parents(sID) ==
    IF \E i \in 1..Len(ongoing) : ongoing[i] = sID
    THEN (CHOOSE i \in 1..Len(ongoing) : ongoing[i] = sID) - 1
    ELSE Len(ongoing)

\* a variant of the gate that lets one more slab through
GateOpenOneMore(sID) == Parents(sID) <= MaxParents

\* the gate of uploadManager.uploader: if len(parents) < 3 { return candidates[0] }
GateOpen(sID) == Parents(sID) < MaxParents

\* the removal of finishSlabUpload
RemoveSlab(seq, sID) == SelectSeq(seq, LAMBDA x : x # sID)

(* ---------------------------- initial states -------------------------- *)

\* the pools Upload is explored with: the contracts 1..n
PoolsUpload == {1..n : n \in 0..TotalShards}

\* newUploadManager: uploaders: make([]*uploader, 0)
InitPool ==
    /\ pool = <<>>
    /\ uFcid = [i \in UploaderObjects |-> 0]
    /\ uBh = [i \in UploaderObjects |-> 0]
    /\ uStopChan = [i \in UploaderObjects |-> FALSE]
    /\ uQueue = [i \in UploaderObjects |-> 0]
    /\ uSignal = [i \in UploaderObjects |-> FALSE]
    /\ uFailures = [i \in UploaderObjects |-> 0]
    /\ uPoints = [i \in UploaderObjects |-> 0]
    /\ upc = [i \in UploaderObjects |-> "none"]
    /\ revLock = [c \in PoolContracts |-> 0]
    /\ refreshes = 0
    /\ lastContracts = {}

\* no call of a function of the statistics is followed
NoOutcome == [done |-> FALSE, panic |-> FALSE, value |-> 0, order |-> <<>>]

InitStats ==
    /\ statIn = [call |-> "none"]
    /\ statOut = NoOutcome

\* no slab goes through the codec, SectorRegion is not called
InitObject ==
    /\ plain = <<>>
    /\ key = <<>>
    /\ bufs = <<>>
    /\ cpc = "none"
    /\ lost = {}
    /\ written = <<>>
    /\ cerr = "none"
    /\ ssIn = [call |-> "none"]
    /\ ssOut = <<>>

\* newUploader: statsSpeed: newDataPoints(), no sector upload executed yet
InitTrack ==
    /\ consecutiveFailures = 0
    /\ statsSpeed = [data |-> [j \in 0..(RingLen - 1) |-> 0], cnt |-> 0]
    /\ executed = 0
    /\ lastUpload = [err |-> "none"]
    /\ lastTracked = "none"
    /\ trackPanic = FALSE

\* the goroutines whose mutexes are followed: the coordinators of two slabs
\* of one upload (uploadShards and what uploadSlab and Upload call around
\* it), the overdrive goroutine of the first slab and a caller of the
\* manager's Stats, RefreshUploaders and Stop
Tasks == {"coordinator1", "coordinator2", "timer1", "caller"}

\* mgr.mu, upload.mu, the mu of each slabUpload, the mu of the uploader, the
\* mu of its statsSpeed and of the manager's statsSpeed and statsOverdrive
Mutexes == {"mgr", "upload", "slab1", "slab2", "uploader", "statsSpeed",
            "mgrStatsSpeed", "mgrStatsOverdrive"}

\* a task that runs no function
Idle == [fn |-> "none", at |-> 0]

\* no mutex is held
InitLocks ==
    /\ holder = [m \in Mutexes |-> "none"]
    /\ task = [t \in Tasks |-> Idle]

\* stripedJoin is not called
InitJoin == joinIn = [call |-> "none"]

\* newDataPoints: Float64Data: make([]float64, 20), cnt and p90 zero; p90 is
\* kept in halves
newDataPoints == [data |-> [j \in 0..(WindowLen - 1) |-> 0], cnt |-> 0, p90x2 |-> 0]

\* recompute() was not called
NeverRecomputed == [done |-> FALSE, cnt |-> 0, p90x2 |-> 0]

\* percentileP90() was not called
NoP90 == [done |-> FALSE, p90x2 |-> 0]

\* a window after newDataPoints that is not followed
InitWindow ==
    /\ window = newDataPoints
    /\ p90Out = NoP90
    /\ recomputed = NeverRecomputed
    /\ tracks = 0

InitLater ==
    /\ InitLocks
    /\ InitJoin

\* no round of an overdrive goroutine is followed with the clock
InitRound ==
    /\ sinceOverdrive = 0
    /\ overdriveTimeout = 0
    /\ odOut = NoReq
    /\ opc = "none"

\* the engine without the stats window
InitParts ==
    /\ stopped = FALSE
    /\ InitRound
    /\ InitLater
    /\ InitTrack
    /\ skipped = [u \in Contracts |-> FALSE]
    /\ InitPool
    /\ queue = [u \in Contracts |-> <<>>]
    /\ signalNewUpload = [u \in Contracts |-> FALSE]
    /\ wpc = [u \in Contracts |-> "wait"]
    /\ wcur = [u \in Contracts |-> NoReq]
    /\ nextReadTrigger = FALSE
    /\ doneShardTrigger = FALSE
    /\ ongoing = <<>>
    /\ used = [k \in Slabs |-> {}]
    /\ sched = [k \in Slabs |-> [u \in Contracts |-> 0]]
    /\ spc = [k \in Slabs |-> "idle"]
    /\ numInflight = [k \in Slabs |-> 0]
    /\ numLaunched = [k \in Slabs |-> 0]
    /\ nextReadTriggered = [k \in Slabs |-> FALSE]
    /\ overdriving = [k \in Slabs |-> [i \in Shards |-> 0]]
    /\ remaining = [k \in Slabs |-> {}]
    /\ sectors = [k \in Slabs |-> [i \in Shards |-> 0]]
    /\ errs = [k \in Slabs |-> {}]
    /\ shardDone = [k \in Slabs |-> {}]
    /\ writes = [k \in Slabs |-> [i \in Shards |-> 0]]
    /\ lidx = [k \in Slabs |-> 0]
    /\ serr = [k \in Slabs |-> "none"]
    /\ slen = [k \in Slabs |-> 0]
    /\ tpc = [k \in Slabs |-> "off"]
    /\ tod = [k \in Slabs |-> 0]
    /\ dpc = "start"
    /\ slabIndex = 0
    /\ numSlabs = -1
    /\ responses = <<>>
    /\ respClosed = FALSE
    /\ ctxDone = FALSE
    /\ retErr = "none"
    /\ object = <<>>
    /\ byteCount = 0
    /\ reads = 0
    /\ tokensPut = 0
    /\ readerEOF = FALSE

InitEngine ==
    /\ InitWindow
    /\ InitParts

InitIdle ==
    /\ InitStats
    /\ InitObject
    /\ InitEngine

\* a call of Upload: any pool RefreshUploaders left, any set of failing hosts
Init ==
    /\ entry = "upload"
    /\ uploaders \in PoolsUpload
    /\ bad \in SUBSET uploaders
    /\ maxOverdrive \in 0..MaxOverdrive
    /\ excluded = {}
    /\ readerLimit = MaxBytes
    /\ readerGrain = 1
    /\ InitIdle

\* a call of Upload on a healthy pool and a reader of whole slabs, up to
\* GateSlabs of them
InitGate ==
    /\ entry = "upload"
    /\ uploaders = 1..TotalShards
    /\ bad = {}
    /\ maxOverdrive = MaxOverdrive
    /\ excluded = {}
    /\ readerLimit = GateSlabs * SlabSize
    /\ readerGrain = SlabSize
    /\ InitIdle

\* a call of Migrate with one slab of TotalShards shards and any excluded set
InitMigrate ==
    /\ entry = "migrate"
    /\ uploaders \in SUBSET Contracts
    /\ bad \in SUBSET uploaders
    /\ maxOverdrive \in 0..MaxOverdrive
    /\ excluded \in SUBSET Contracts
    /\ readerLimit = 0
    /\ readerGrain = 1
    /\ InitIdle

(* --------------------------- uploadManager ---------------------------- *)

\* newUpload: the uploaders whose contract is not excluded
Usable == Cardinality({u \in uploaders : u \notin excluded})

\* a variant of the test of newUpload that counts excluded uploaders too
newUploadFailsCountingExcluded == Cardinality(uploaders) < TotalShards

\* newUpload: if usable < totalShards { return nil, errNotEnoughUploaders }
newUploadFails == Usable < TotalShards

\* uploadManager.enqueue on the uploader it picked, and the bookkeeping of
\* slabUpload.launch that follows under the coordinator's mutex:
\* uploader.schedule, registerUsedUploader, numInflight++, numLaunched++
Enqueue(req, u) ==
    /\ queue' = [queue EXCEPT ![u] = Append(@, req)]
    /\ signalNewUpload' = [signalNewUpload EXCEPT ![u] = TRUE]
    /\ used' = [used EXCEPT ![req.sID] = @ \cup {u}]
    /\ sched' = [sched EXCEPT ![req.sID][u] = @ + 1]
    /\ numInflight' = [numInflight EXCEPT ![req.sID] = @ + 1]
    /\ numLaunched' = [numLaunched EXCEPT ![req.sID] = @ + 1]
    /\ overdriving' = IF req.overdrive
                      THEN [overdriving EXCEPT ![req.sID][req.sectorIndex] = @ + 1]
                      ELSE overdriving

NoEnqueue ==
    UNCHANGED <<queue, signalNewUpload, used, sched, numInflight, numLaunched,
                overdriving>>

\* the goroutine of uploadSlab up to newSlabUpload: the slab id joins
\* upload.ongoing and every shard index gets its context.  The step is taken
\* with the step that spawns the slab: a new id is appended behind every id
\* another slab's gate counts, so the moment of the append is seen by no one
SlabStart(k, length) ==
    /\ ongoing' = Append(ongoing, k)
    /\ remaining' = [remaining EXCEPT ![k] = Shards]
    /\ lidx' = [lidx EXCEPT ![k] = 0]
    /\ slen' = [slen EXCEPT ![k] = length]
    /\ spc' = [spc EXCEPT ![k] = "launch"]

\* the goroutine of uploadSlab ends: its slabUpload, its shard contexts (all
\* cancelled by then) and the slab's entry of upload.used are read by nobody
\* any more, and their variables go back to their initial values
SlabGone(k) ==
    /\ used' = [used EXCEPT ![k] = {}]
    /\ sched' = [sched EXCEPT ![k] = [u \in Contracts |-> 0]]
    /\ numInflight' = [numInflight EXCEPT ![k] = 0]
    /\ numLaunched' = [numLaunched EXCEPT ![k] = 0]
    /\ nextReadTriggered' = [nextReadTriggered EXCEPT ![k] = FALSE]
    /\ remaining' = [remaining EXCEPT ![k] = {}]
    /\ sectors' = [sectors EXCEPT ![k] = [i \in Shards |-> 0]]
    /\ errs' = [errs EXCEPT ![k] = {}]
    /\ writes' = [writes EXCEPT ![k] = [i \in Shards |-> 0]]
    /\ lidx' = [lidx EXCEPT ![k] = 0]
    /\ UNCHANGED <<overdriving, shardDone, tokensPut>>

(* ------------------------- Upload, the driver ------------------------- *)

\* Upload up to the loop: newUpload, respChan
UploadStart ==
    /\ entry = "upload"
    /\ dpc = "start"
    /\ IF newUploadFails
       THEN /\ dpc' = "returned"
            /\ retErr' = "NotEnoughUploaders"
            /\ ctxDone' = TRUE
            /\ UNCHANGED nextReadTrigger
       ELSE /\ dpc' = "loop"
            /\ nextReadTrigger' = TRUE
            /\ UNCHANGED <<retErr, ctxDone>>
    /\ UNCHANGED <<envVars, workerVars, doneShardTrigger, ongoing, used, sched,
                   coordVars, slabVars, timerVars, slabIndex, numSlabs,
                   responses, respClosed, object, readerVars>>

\* the lengths io.ReadFull(io.LimitReader(cr, size), data) can return: the
\* whole slab while the reader has that much, else what is left
ReadLengths ==
    IF readerEOF THEN {0}
    ELSE {n \in 0..Min(SlabSize, readerLimit - byteCount) : n % readerGrain = 0}

\* case <-u.nextReadTrigger
ReadNext ==
    /\ dpc = "loop"
    /\ nextReadTrigger
    /\ nextReadTrigger' = FALSE
    /\ \E length \in ReadLengths :
        /\ byteCount' = byteCount + length
        /\ reads' = reads + 1
        /\ readerEOF' = (length < SlabSize)
        /\ IF length = 0
           THEN /\ numSlabs' = slabIndex
                /\ UNCHANGED <<slabIndex, spc, slen, lidx, ongoing, remaining>>
           ELSE /\ SlabStart(slabIndex, length)
                /\ slabIndex' = slabIndex + 1
                /\ UNCHANGED numSlabs
    /\ UNCHANGED <<envVars, workerVars, doneShardTrigger, used, sched,
                   numInflight, numLaunched, nextReadTriggered, overdriving,
                   sectors, errs, shardDone, writes, tokensPut, serr, timerVars,
                   dpc,
                   responses, respClosed, ctxDone, retErr, object>>

\* sort.Slice(responses, by index): insertion of each response in its place
RECURSIVE SortByIndex(_)
SortByIndex(resps) ==
    IF resps = <<>> THEN <<>>
    ELSE LET least == CHOOSE i \in 1..Len(resps) :
                          \A j \in 1..Len(resps) : resps[i].index <= resps[j].index
             rest == [j \in 1..(Len(resps) - 1) |->
                          IF j < least THEN resps[j] ELSE resps[j + 1]]
         IN  <<resps[least]>> \o SortByIndex(rest)

\* a variant of the decoration that leaves the sort out
DecorateInArrivalOrder(resps) ==
    [i \in 1..Len(resps) |->
        [chunk |-> resps[i].index, offset |-> 0, length |-> resps[i].length]]

\* a variant of the decoration that gives every slab the length of a whole
\* slab
DecorateWholeSlabs(resps) ==
    LET sorted == SortByIndex(resps)
    IN  [i \in 1..Len(sorted) |->
            [chunk |-> sorted[i].index, offset |-> 0, length |-> SlabSize]]

\* o.Slabs after the loop: the slab of every response, in the sorted order
Decorate(resps) ==
    LET sorted == SortByIndex(resps)
    IN  [i \in 1..Len(sorted) |->
            [chunk |-> sorted[i].index, offset |-> 0, length |-> sorted[i].length]]

\* a variant of the loop's exit test with >= for ==
LoopBreaksAtLeast(resps, total) == Len(resps) >= total

\* if len(responses) == numSlabs { break loop }
LoopBreaks(resps, total) == Len(resps) = total

\* a variant of the driver's test that takes every response for a success
IsErrNever(res) == FALSE

\* if res.err != nil { return object.Object{}, res.err }
IsErr(res) == res.err # "none"

\* case res := <-respChan, with the send of uploadSlab it meets
CollectResponse(k) ==
    /\ dpc = "loop"
    /\ spc[k] = "respond"
    /\ spc' = [spc EXCEPT ![k] = "done"]
    /\ LET res == [index |-> k, length |-> slen[k], err |-> serr[k]]
           resps == Append(responses, res)
       IN  IF IsErr(res)
           THEN /\ retErr' = res.err
                /\ dpc' = "closed"
                /\ respClosed' = TRUE
                /\ UNCHANGED <<responses, object>>
           ELSE /\ responses' = resps
                /\ IF LoopBreaks(resps, numSlabs)
                   THEN /\ object' = Decorate(resps)
                        /\ dpc' = "closed"
                        /\ respClosed' = TRUE
                   ELSE UNCHANGED <<object, dpc, respClosed>>
                /\ UNCHANGED retErr
    /\ SlabGone(k)
    /\ UNCHANGED <<envVars, workerVars, chanVars, ongoing, serr, slen,
                   timerVars, slabIndex, numSlabs, ctxDone, readerVars>>

\* the deferred cancel() of Upload, after the deferred close(respChan)
DeferredCancel ==
    /\ dpc = "closed"
    /\ dpc' = "returned"
    /\ ctxDone' = TRUE
    /\ UNCHANGED <<envVars, workerVars, chanVars, ongoing, used, sched,
                   coordVars, slabVars, timerVars, slabIndex, numSlabs,
                   responses, respClosed, retErr, object, readerVars>>

\* Migrate up to uploadShards
MigrateStart ==
    /\ entry = "migrate"
    /\ dpc = "start"
    /\ IF newUploadFails
       THEN /\ dpc' = "returned"
            /\ retErr' = "NotEnoughUploaders"
            /\ UNCHANGED <<nextReadTrigger, spc, slabIndex, slen, lidx,
                           ongoing, remaining>>
       ELSE /\ dpc' = "migrating"
            /\ nextReadTrigger' = TRUE
            /\ SlabStart(0, SlabSize)
            /\ slabIndex' = 1
            /\ UNCHANGED retErr
    /\ UNCHANGED <<envVars, workerVars, doneShardTrigger, used, sched,
                   numInflight, numLaunched, nextReadTriggered, overdriving,
                   sectors, errs, shardDone, writes, tokensPut, serr, timerVars,
                   numSlabs,
                   responses, respClosed, ctxDone, object, readerVars>>

(* ------------------ uploadSlab / uploadShards, per slab ---------------- *)

\* the coordinator's mutex is held by the slab's own goroutine only while
\* slabUpload.launch is blocked at the gate inside enqueue
MutexFree(k) == spc[k] \notin {"gatewait", "gatecheck"}

\* for slab.inflight() > 0 && !finished
LoopContinues(inflight, finished) == inflight > 0 /\ ~finished

\* the position after a launch of the loop "launch all shard uploads"
\* succeeded: the next shard, or the overdrive goroutine and the response loop
AfterInitialLaunch(k) ==
    IF lidx[k] + 1 < TotalShards
    THEN /\ lidx' = [lidx EXCEPT ![k] = @ + 1]
         /\ UNCHANGED <<spc, tpc>>
    ELSE /\ spc' = [spc EXCEPT ![k] = "collect"]
         /\ tpc' = [tpc EXCEPT ![k] = "idle"]
         /\ UNCHANGED lidx

\* slab.launch(upload) of the initial loop
LaunchInitial(k) ==
    /\ spc[k] = "launch"
    /\ IF Candidates(k) = {}
       THEN \* errNoFreeUploader: return nil, err
            /\ serr' = [serr EXCEPT ![k] = "NoFreeUploader"]
            /\ spc' = [spc EXCEPT ![k] = "finish"]
            /\ NoEnqueue
            /\ UNCHANGED <<lidx, tpc>>
       ELSE IF ~GateOpen(k)
       THEN \* select on doneShardTrigger and the shard's context
            /\ spc' = [spc EXCEPT ![k] = "gatewait"]
            /\ NoEnqueue
            /\ UNCHANGED <<serr, lidx, tpc>>
       ELSE /\ \E u \in Candidates(k) :
                   Enqueue([sID |-> k, sectorIndex |-> lidx[k], overdrive |-> FALSE], u)
            /\ AfterInitialLaunch(k)
            /\ UNCHANGED serr
    /\ UNCHANGED <<envVars, wpc, wcur, chanVars, ongoing,
                   nextReadTriggered, remaining, sectors, errs, shardDone,
                   writes, tokensPut, slen, tod, driverVars, readerVars>>

\* the select of the gate: a shard-completed token, or the cancelled context
GateWake(k) ==
    /\ spc[k] = "gatewait"
    /\ \E way \in {w \in {"token", "ctx"} : IF w = "token" THEN doneShardTrigger
                                                          ELSE ctxDone} :
          IF way = "token"
          THEN /\ doneShardTrigger' = FALSE
               /\ spc' = [spc EXCEPT ![k] = "gatecheck"]
               /\ UNCHANGED serr
          ELSE \* break loop; return nil: enqueue returns errNoFreeUploader
               /\ serr' = [serr EXCEPT ![k] = "NoFreeUploader"]
               /\ spc' = [spc EXCEPT ![k] = "finish"]
               /\ UNCHANGED doneShardTrigger
    /\ UNCHANGED <<envVars, workerVars, nextReadTrigger, ongoing, used, sched,
                   coordVars, lidx, slen, timerVars, driverVars, readerVars>>

\* continue loop: the gate reads upload.ongoing again
GateCheck(k) ==
    /\ spc[k] = "gatecheck"
    /\ IF GateOpen(k)
       THEN /\ \E u \in Candidates(k) :
                   Enqueue([sID |-> k, sectorIndex |-> lidx[k], overdrive |-> FALSE], u)
            /\ AfterInitialLaunch(k)
       ELSE /\ spc' = [spc EXCEPT ![k] = "gatewait"]
            /\ NoEnqueue
            /\ UNCHANGED <<lidx, tpc>>
    /\ UNCHANGED <<envVars, wpc, wcur, chanVars, ongoing,
                   nextReadTriggered, remaining, sectors, errs, shardDone,
                   writes, tokensPut, serr, slen, tod, driverVars, readerVars>>

\* a variant of slabUpload.receive without the test for a redundant sector
StoresEverySuccess(k, req, ok) == ok

\* slabUpload.receive: does the response fill its sector slot?
Stores(k, req, ok) == ok /\ sectors[k][req.sectorIndex] = 0

\* a variant of slabUpload.tryTriggerNextRead that forgets it has triggered
TriggersAgain(k, rem) ==
    /\ Cardinality(rem) <= maxOverdrive
    /\ ~nextReadTrigger

\* a variant of tryTriggerNextRead without the test of len(s.remaining)
TriggersEarly(k, rem) ==
    /\ ~nextReadTriggered[k]
    /\ ~nextReadTrigger

\* a variant of the test of tryTriggerNextRead without the one-shot flag
TriesTriggerAgain(k, rem) == Cardinality(rem) <= maxOverdrive

\* if !s.nextReadTriggered && len(s.remaining) <= int(s.mgr.maxOverdrive):
\* does tryTriggerNextRead attempt its non-blocking send?
TriesTrigger(k, rem) ==
    /\ ~nextReadTriggered[k]
    /\ Cardinality(rem) <= maxOverdrive

\* slabUpload.tryTriggerNextRead: does it put a token on nextReadTrigger?
Triggers(k, rem) ==
    /\ TriesTrigger(k, rem)
    /\ ~nextReadTrigger

\* a variant of the response loop that relaunches nothing
RelaunchesNothing(req, ok) == FALSE

\* if resp.err != nil && !resp.req.overdrive { slab.launch(resp.req) }
Relaunches(req, ok) == ~ok /\ ~req.overdrive

\* case resp = <-shardRespChan, with the end of the worker's sector RPC and
\* the send of shardUpload.succeed / fail it meets; then slab.receive(resp)
\* and the handling of the response up to the relaunch
Receive(k, u, ok) ==
    /\ spc[k] = "collect"
    /\ wpc[u] = "busy"
    /\ wcur[u].sID = k
    /\ ok \in Outcomes(u)
    /\ LET req == wcur[u]
           i == req.sectorIndex
           stores == Stores(k, req, ok)
           rem == IF stores THEN remaining[k] \ {i} ELSE remaining[k]
           finished == stores /\ rem = {}
           inflight == numInflight[k] - 1
       IN  /\ numInflight' = [numInflight EXCEPT ![k] = inflight]
           /\ errs' = IF ok THEN errs ELSE [errs EXCEPT ![k] = @ \cup {u}]
           /\ sectors' = IF stores THEN [sectors EXCEPT ![k][i] = u] ELSE sectors
           /\ writes' = IF stores THEN [writes EXCEPT ![k][i] = @ + 1] ELSE writes
           /\ shardDone' = IF stores THEN [shardDone EXCEPT ![k] = @ \cup {i}]
                           ELSE shardDone
           /\ remaining' = [remaining EXCEPT ![k] = rem]
           /\ doneShardTrigger' = (doneShardTrigger \/ ok)
           /\ IF ok /\ Triggers(k, rem)
              THEN /\ nextReadTrigger' = TRUE
                   /\ nextReadTriggered' = [nextReadTriggered EXCEPT ![k] = TRUE]
                   /\ tokensPut' = tokensPut + 1
              ELSE UNCHANGED <<nextReadTrigger, nextReadTriggered, tokensPut>>
           /\ IF Relaunches(req, ok)
              THEN /\ spc' = [spc EXCEPT ![k] = "relaunch"]
                   /\ lidx' = [lidx EXCEPT ![k] = i]
              ELSE /\ spc' = [spc EXCEPT ![k] =
                                 IF LoopContinues(inflight, finished)
                                 THEN "collect" ELSE "finish"]
                   /\ UNCHANGED lidx
    /\ wpc' = [wpc EXCEPT ![u] = "drain"]
    /\ wcur' = [wcur EXCEPT ![u] = NoReq]
    /\ UNCHANGED <<envVars, queue, signalNewUpload, ongoing, used, sched,
                   numLaunched, overdriving, serr, slen, timerVars, driverVars,
                   readerVars>>

\* relaunch non-overdrive uploads: slab.launch(resp.req).  The slab has
\* launched before, and the slabs in front of it only leave upload.ongoing,
\* so the gate it passed then is open now
Relaunch(k) ==
    /\ spc[k] = "relaunch"
    /\ IF Candidates(k) = {}
       THEN \* break: fail the upload
            /\ spc' = [spc EXCEPT ![k] = "finish"]
            /\ NoEnqueue
       ELSE /\ GateOpen(k)
            /\ \E u \in Candidates(k) :
                   Enqueue([sID |-> k, sectorIndex |-> lidx[k], overdrive |-> FALSE], u)
            /\ spc' = [spc EXCEPT ![k] =
                          IF LoopContinues(numInflight[k] + 1, FALSE)
                          THEN "collect" ELSE "finish"]
    /\ UNCHANGED <<envVars, wpc, wcur, chanVars, ongoing,
                   nextReadTriggered, remaining, sectors, errs, shardDone,
                   writes, tokensPut, lidx, serr, slen, timerVars, driverVars,
                   readerVars>>

\* case <-ctx.Done() of the response loop: return nil, ctx.Err()
CollectCancelled(k) ==
    /\ spc[k] = "collect"
    /\ ctxDone
    /\ serr' = [serr EXCEPT ![k] = "Cancelled"]
    /\ spc' = [spc EXCEPT ![k] = "finish"]
    /\ UNCHANGED <<envVars, workerVars, chanVars, ongoing, used, sched,
                   coordVars, lidx, slen, timerVars, driverVars, readerVars>>

\* slabUpload.finish: the sectors, or the error of a slab with shards remaining
finish(k) == IF remaining[k] # {} THEN "SlabUploadFailed" ELSE "none"

\* the return of uploadShards: slab.finish() after the loop, and the deferred
\* finishSlabUpload on every path; Migrate returns what uploadShards returns
Finish(k) ==
    /\ spc[k] = "finish"
    /\ LET err == IF serr[k] # "none" THEN serr[k] ELSE finish(k)
       IN  /\ serr' = [serr EXCEPT ![k] = err]
           /\ IF entry = "migrate"
              THEN /\ spc' = [spc EXCEPT ![k] = "done"]
                   /\ dpc' = "returned"
                   /\ retErr' = err
              ELSE /\ spc' = [spc EXCEPT ![k] = "respond"]
                   /\ UNCHANGED <<dpc, retErr>>
    /\ ongoing' = RemoveSlab(ongoing, k)
    /\ shardDone' = [shardDone EXCEPT ![k] = @ \cup remaining[k]]
    /\ UNCHANGED <<envVars, workerVars, chanVars, used, sched, numInflight,
                   numLaunched, nextReadTriggered, overdriving, remaining,
                   sectors, errs, writes, tokensPut, lidx, slen, timerVars,
                   slabIndex,
                   numSlabs, responses, respClosed, ctxDone, object, readerVars>>

\* the select of uploadSlab that sends the response, when the send does not
\* meet the driver: case <-ctx.Done(), or a send on the closed respChan
RespondWithoutDriver(k) ==
    /\ spc[k] = "respond"
    /\ \E way \in {w \in {"ctx", "closed"} : IF w = "ctx" THEN ctxDone
                                                        ELSE respClosed} :
          IF way = "ctx"
          THEN /\ spc' = [spc EXCEPT ![k] = "done"]
               /\ SlabGone(k)
               /\ UNCHANGED <<wpc, tpc, dpc>>
          ELSE \* panic: send on closed channel; every goroutine is gone
               /\ spc' = [j \in Slabs |-> "panic"]
               /\ wpc' = [u \in Contracts |-> "panic"]
               /\ tpc' = [j \in Slabs |-> "panic"]
               /\ dpc' = "panic"
               /\ UNCHANGED <<used, sched, coordVars, lidx>>
    /\ UNCHANGED <<envVars, queue, signalNewUpload, wcur, chanVars, ongoing,
                   serr, slen, tod, slabIndex, numSlabs, responses, respClosed,
                   ctxDone, retErr, object, readerVars>>

(* ------------------- the overdrive goroutine, per slab ---------------- *)

\* s.numInflight-uint64(len(s.remaining)) >= s.mgr.maxOverdrive, in uint64:
\* a negative difference wraps to a number near 2^64
OverdriveMaxedOut(k) ==
    IF numInflight[k] >= Cardinality(remaining[k])
    THEN numInflight[k] - Cardinality(remaining[k]) >= maxOverdrive
    ELSE TRUE

\* a variant of slabUpload.overdrive that picks among all shards of the slab
OverdriveChoicesOfAllShards(k) ==
    IF \/ Cardinality(remaining[k]) >= maxOverdrive
       \/ OverdriveMaxedOut(k)
    THEN {}
    ELSE Shards

\* slabUpload.overdrive: the shard indices it can return (none: nil); the
\* range over the map meets the remaining indices in any order and keeps the
\* first of the least overdrive count
OverdriveChoices(k) ==
    IF \/ Cardinality(remaining[k]) >= maxOverdrive
       \/ OverdriveMaxedOut(k)
    THEN {}
    ELSE {i \in remaining[k] :
             \A j \in remaining[k] : overdriving[k][i] <= overdriving[k][j]}

\* case <-timeout.C: slab.overdrive(...) returns an upload.  A round whose
\* launch finds no usable uploader changes nothing and is not a step: the
\* candidates of a slab only shrink, so none at overdrive() is none at launch
TimerFire(k) ==
    /\ tpc[k] = "idle"
    /\ MutexFree(k)
    /\ Candidates(k) # {}
    /\ \E i \in OverdriveChoices(k) :
          tod' = [tod EXCEPT ![k] = i]
    /\ tpc' = [tpc EXCEPT ![k] = "launch"]
    /\ UNCHANGED <<envVars, workerVars, chanVars, ongoing, used, sched,
                   coordVars, slabVars, driverVars, readerVars>>

\* _ = slab.launch(upload) of the overdrive goroutine, then resetTimeout; the
\* gate is open as it is for a relaunch
TimerLaunch(k) ==
    /\ tpc[k] = "launch"
    /\ MutexFree(k)
    /\ IF Candidates(k) = {}
       THEN NoEnqueue
       ELSE /\ GateOpen(k)
            /\ \E u \in Candidates(k) :
                   Enqueue([sID |-> k, sectorIndex |-> tod[k], overdrive |-> TRUE], u)
    /\ tpc' = [tpc EXCEPT ![k] = "idle"]
    /\ UNCHANGED <<envVars, wpc, wcur, chanVars, ongoing,
                   nextReadTriggered, remaining, sectors, errs, shardDone,
                   writes, tokensPut, slabVars, tod, driverVars, readerVars>>

\* case <-ctx.Done(): return
TimerExit(k) ==
    /\ tpc[k] = "idle"
    /\ ctxDone
    /\ tpc' = [tpc EXCEPT ![k] = "exit"]
    /\ UNCHANGED <<envVars, workerVars, chanVars, ongoing, used, sched,
                   coordVars, slabVars, tod, driverVars, readerVars>>

(* ---------------------- uploader.start, per contract ------------------ *)

\* a variant of the pop that executes every upload it pops, done or not
PopNextExecutesDone(u) ==
    IF queue[u] = <<>>
    THEN /\ wpc' = [wpc EXCEPT ![u] = "wait"]
         /\ UNCHANGED <<queue, wcur>>
    ELSE /\ queue' = [queue EXCEPT ![u] = Tail(@)]
         /\ wpc' = [wpc EXCEPT ![u] = "busy"]
         /\ wcur' = [wcur EXCEPT ![u] = Head(queue[u])]

\* upload := u.pop() and what follows it up to the sector RPC: continue outer
\* on nil, skip the upload if upload.done(), otherwise execute it
PopNext(u) ==
    IF queue[u] = <<>>
    THEN /\ wpc' = [wpc EXCEPT ![u] = "wait"]
         /\ UNCHANGED <<queue, wcur>>
    ELSE /\ queue' = [queue EXCEPT ![u] = Tail(@)]
         /\ IF Done(Head(queue[u]))
            THEN /\ wpc' = [wpc EXCEPT ![u] = "drain"]
                 /\ UNCHANGED wcur
            ELSE /\ wpc' = [wpc EXCEPT ![u] = "busy"]
                 /\ wcur' = [wcur EXCEPT ![u] = Head(queue[u])]

\* case <-u.signalNewUpload, the stop test that finds u.stopChan open and the
\* first pop of the inner loop
WorkerWake(u) ==
    /\ wpc[u] = "wait"
    /\ signalNewUpload[u]
    /\ ~stopped
    /\ signalNewUpload' = [signalNewUpload EXCEPT ![u] = FALSE]
    /\ PopNext(u)
    /\ UNCHANGED <<envVars, chanVars, ongoing, used, sched,
                   coordVars, slabVars, timerVars, driverVars, readerVars>>

\* a variant of the worker's stop test that always takes its default case
SeesStopNever(u) == FALSE

\* the stop test of the inner loop: case <-u.stopChan is ready
SeesStop(u) == stopped

\* the next round of the inner loop: the non-blocking test of u.stopChan
\* takes its default case and the worker pops ("popping": the test has run
\* and the pop has not)
WorkerPop(u) ==
    /\ \/ wpc[u] = "drain" /\ ~SeesStop(u)
       \/ wpc[u] = "popping"
    /\ PopNext(u)
    /\ UNCHANGED <<envVars, signalNewUpload, chanVars, ongoing, used,
                   sched, coordVars, slabVars, timerVars, driverVars,
                   readerVars>>

\* case <-upload.ctx.Done() of shardUpload.succeed / fail: the sector RPC has
\* ended and no response is sent
WorkerDrop(u) ==
    /\ wpc[u] = "busy"
    /\ Done(wcur[u])
    /\ wpc' = [wpc EXCEPT ![u] = "drain"]
    /\ wcur' = [wcur EXCEPT ![u] = NoReq]
    /\ UNCHANGED <<envVars, queue, signalNewUpload, chanVars, ongoing,
                   used, sched, coordVars, slabVars, timerVars, driverVars,
                   readerVars>>

\* The worker again, with its pops traced: skipped[u] tells that the upload
\* the worker popped last was done (upload.done()) and the loop went on to
\* the next round without executing it.

\* everything but the worker's variables, its signal and the trace
untracedVars == <<entry, bad, uploaders, maxOverdrive, excluded, readerLimit,
                  readerGrain, statVars, objectVars, trackVars, stopped, poolVars, laterVars, roundVars,
                  chanVars, ongoing, used, sched, coordVars, slabVars,
                  timerVars, driverVars, readerVars>>

\* upload := u.pop(); if upload.done() { continue }
PopTraced(u) ==
    /\ PopNext(u)
    /\ skipped' = [skipped EXCEPT ![u] = queue[u] # <<>> /\ Done(Head(queue[u]))]

\* WorkerWake, traced
WorkerWakeTraced(u) ==
    /\ wpc[u] = "wait"
    /\ signalNewUpload[u]
    /\ ~stopped
    /\ signalNewUpload' = [signalNewUpload EXCEPT ![u] = FALSE]
    /\ PopTraced(u)
    /\ UNCHANGED untracedVars

\* WorkerPop, traced
WorkerPopTraced(u) ==
    /\ \/ wpc[u] = "drain" /\ ~SeesStop(u)
       \/ wpc[u] = "popping"
    /\ PopTraced(u)
    /\ UNCHANGED <<signalNewUpload, untracedVars>>

(* ------------------- uploadManager.Stop and cancellation -------------- *)

InPool(i) == \E j \in 1..Len(pool) : pool[j] = i

\* the workers that stand between a stop test that found u.stopChan open and
\* the pop that follows it: in the inner loop, or woken by a signal
PastStopTest ==
    {u \in uploaders : wpc[u] = "drain" \/ (wpc[u] = "wait" /\ signalNewUpload[u])}

\* uploadManager.Stop: close(mgr.stopChan) and close(u.stopChan) for every
\* uploader of the pool.  No goroutine reads both channels, so the closes are
\* one step.  A worker whose stop test ran before the close pops once more:
\* any set P of the workers that can stand there does
Stop ==
    /\ ~stopped
    /\ dpc # "panic"
    /\ stopped' = TRUE
    /\ \E P \in SUBSET PastStopTest :
          /\ wpc' = [u \in Contracts |-> IF u \in P THEN "popping" ELSE wpc[u]]
          /\ signalNewUpload' =
                [u \in Contracts |-> IF u \in P /\ wpc[u] = "wait"
                                     THEN FALSE ELSE signalNewUpload[u]]
    /\ uStopChan' = [i \in UploaderObjects |-> uStopChan[i] \/ InPool(i)]
    /\ UNCHANGED <<callVars, pool, uFcid, uBh, uQueue, uSignal, uFailures,
                   uPoints, upc, revLock, refreshes, lastContracts, queue,
                   wcur, chanVars, ongoing, used, sched, coordVars, slabVars,
                   timerVars, driverVars, readerVars>>

\* the caller cancels the context Upload was called with; the upload's context
\* derives from it
CallerCancel ==
    /\ dpc = "loop"
    /\ ~ctxDone
    /\ ctxDone' = TRUE
    /\ UNCHANGED <<envVars, workerVars, chanVars, ongoing, used, sched,
                   coordVars, slabVars, timerVars, dpc, slabIndex, numSlabs,
                   responses, respClosed, retErr, object, readerVars>>

\* a variant of the driver's select without the case of mgr.stopChan
SelectsStopNever == FALSE

\* case <-u.mgr.stopChan of the driver's select is ready
SelectsStop == stopped

\* case <-u.mgr.stopChan: return object.Object{}, "manager was stopped"
UploadStopped ==
    /\ dpc = "loop"
    /\ SelectsStop
    /\ dpc' = "closed"
    /\ respClosed' = TRUE
    /\ retErr' = "ManagerStopped"
    /\ UNCHANGED <<envVars, workerVars, chanVars, ongoing, used, sched,
                   coordVars, slabVars, timerVars, slabIndex, numSlabs,
                   responses, ctxDone, object, readerVars>>

\* case <-ctx.Done(): return object.Object{}, "upload timed out"
UploadTimedOut ==
    /\ dpc = "loop"
    /\ ctxDone
    /\ dpc' = "closed"
    /\ respClosed' = TRUE
    /\ retErr' = "UploadTimedOut"
    /\ UNCHANGED <<envVars, workerVars, chanVars, ongoing, used, sched,
                   coordVars, slabVars, timerVars, slabIndex, numSlabs,
                   responses, ctxDone, object, readerVars>>

\* case <-mgr.stopChan of the response loop: return nil, "upload stopped"
CollectStopped(k) ==
    /\ spc[k] = "collect"
    /\ stopped
    /\ serr' = [serr EXCEPT ![k] = "UploadStopped"]
    /\ spc' = [spc EXCEPT ![k] = "finish"]
    /\ UNCHANGED <<envVars, workerVars, chanVars, ongoing, used, sched,
                   coordVars, lidx, slen, timerVars, driverVars, readerVars>>

\* case <-u.stopChan: return, in the outer select or in the stop test of the
\* inner loop
WorkerStop(u) ==
    /\ u \in uploaders
    /\ \/ wpc[u] = "wait" /\ stopped
       \/ wpc[u] = "drain" /\ SeesStop(u)
    /\ wpc' = [wpc EXCEPT ![u] = "exited"]
    /\ UNCHANGED <<envVars, queue, signalNewUpload, wcur, chanVars, ongoing,
                   used, sched, coordVars, slabVars, timerVars, driverVars,
                   readerVars>>

(* -------------------- the pool and its uploader objects --------------- *)

\* The calls of Upload and Migrate above run on a pool that does not change,
\* given by its contract ids: there the uploader of a contract is named by
\* the contract.  The actions below follow mgr.uploaders through the calls
\* of RefreshUploaders, with the uploader objects told apart and every step
\* of uploader.start on its own.

uploadVars == <<callVars, workerVars, chanVars, ongoing, used, sched,
                coordVars, slabVars, timerVars, driverVars, readerVars>>

Range(f) == {f[j] : j \in 1..Len(f)}

\* the contract lists a call is given: a contract id may repeat
ContractLists == UNION {[1..n -> PoolContracts] : n \in 0..MaxContractsLen}

\* for _, contract := range c2m: Go leaves the order of a map's keys open
Orders(S) == {f \in [1..Cardinality(S) -> S] : Range(f) = S}

\* the uploader objects newUploader has not created yet
Fresh == {i \in UploaderObjects : uFcid[i] = 0}

\* a variant of the first loop of RefreshUploaders that keeps every uploader
KeepsAll(c2m) == pool

\* the first loop of RefreshUploaders: the uploaders whose contract is a key
\* of c2m stay, in their order
Keeps(c2m) == SelectSeq(pool, LAMBDA i : uFcid[i] \in c2m)

\* uploadManager.RefreshUploaders
RefreshUploaders(contracts, bh) ==
    /\ refreshes < MaxRefreshes
    /\ LET c2m == Range(contracts)
           kept == Keeps(c2m)
           missing == c2m \ {uFcid[i] : i \in Range(kept)}
           n == MaxUploaders - Cardinality(Fresh)
       IN  /\ Cardinality(missing) <= Cardinality(Fresh)
           /\ \E new \in Orders(missing) :
                 LET made == [j \in 1..Len(new) |-> n + j]
                     after == kept \o made
                 IN  /\ pool' = after
                     /\ uFcid' = [i \in UploaderObjects |->
                                    IF i \in Range(made) THEN new[i - n]
                                    ELSE uFcid[i]]
                     /\ upc' = [i \in UploaderObjects |->
                                    IF i \in Range(made) THEN "wait" ELSE upc[i]]
                     /\ uBh' = [i \in UploaderObjects |->
                                    IF i \in Range(after) THEN bh ELSE uBh[i]]
    /\ refreshes' = refreshes + 1
    /\ lastContracts' = Range(contracts)
    /\ UNCHANGED <<stopped, uStopChan, uQueue, uSignal, uFailures, uPoints,
                   revLock, uploadVars>>

\* a variant of uploader.schedule that appends the upload and sends no signal
ScheduleWithoutSignal(i) ==
    /\ uFcid[i] # 0
    /\ uQueue[i] < MaxQueue
    /\ uQueue' = [uQueue EXCEPT ![i] = @ + 1]
    /\ UNCHANGED <<stopped, pool, uFcid, uBh, uStopChan, uSignal, uFailures,
                   uPoints, upc, revLock, refreshes, lastContracts, uploadVars>>

\* uploader.schedule, called by uploadManager.enqueue on the uploader that
\* uploadManager.uploader returned: the pool's mutex is released between the
\* two, so the uploader may have left the pool meanwhile
Schedule(i) ==
    /\ uFcid[i] # 0
    /\ uQueue[i] < MaxQueue
    /\ uQueue' = [uQueue EXCEPT ![i] = @ + 1]
    /\ uSignal' = [uSignal EXCEPT ![i] = TRUE]
    /\ UNCHANGED <<stopped, pool, uFcid, uBh, uStopChan, uFailures, uPoints,
                   upc, revLock, refreshes, lastContracts, uploadVars>>

\* the outer select of uploader.start: case <-u.signalNewUpload
UploaderWake(i) ==
    /\ upc[i] = "wait"
    /\ uSignal[i]
    /\ uSignal' = [uSignal EXCEPT ![i] = FALSE]
    /\ upc' = [upc EXCEPT ![i] = "test"]
    /\ UNCHANGED <<stopped, pool, uFcid, uBh, uStopChan, uQueue, uFailures,
                   uPoints, revLock, refreshes, lastContracts, uploadVars>>

\* the outer select of uploader.start: case <-u.stopChan: return
UploaderStopWait(i) ==
    /\ upc[i] = "wait"
    /\ uStopChan[i]
    /\ upc' = [upc EXCEPT ![i] = "exited"]
    /\ UNCHANGED <<stopped, pool, uFcid, uBh, uStopChan, uQueue, uSignal,
                   uFailures, uPoints, revLock, refreshes, lastContracts,
                   uploadVars>>

\* the stop test of the inner loop
UploaderTest(i) ==
    /\ upc[i] = "test"
    /\ upc' = [upc EXCEPT ![i] = IF uStopChan[i] THEN "exited" ELSE "pop"]
    /\ UNCHANGED <<stopped, pool, uFcid, uBh, uStopChan, uQueue, uSignal,
                   uFailures, uPoints, revLock, refreshes, lastContracts,
                   uploadVars>>

\* upload := u.pop(): continue outer on nil; continue if upload.done(), which
\* depends on a context the pool does not know; otherwise call withRevision
UploaderPop(i) ==
    /\ upc[i] = "pop"
    /\ IF uQueue[i] = 0
       THEN /\ upc' = [upc EXCEPT ![i] = "wait"]
            /\ UNCHANGED uQueue
       ELSE /\ uQueue' = [uQueue EXCEPT ![i] = @ - 1]
            /\ \E done \in BOOLEAN :
                  upc' = [upc EXCEPT ![i] = IF done THEN "test" ELSE "lock"]
    /\ UNCHANGED <<stopped, pool, uFcid, uBh, uStopChan, uSignal, uFailures,
                   uPoints, revLock, refreshes, lastContracts, uploadVars>>

\* a variant of the worker that executes the sector upload without the
\* contract's revision
UploaderExecutesUnlocked(i) ==
    /\ upc[i] = "lock"
    /\ upc' = [upc EXCEPT ![i] = "rpc"]
    /\ UNCHANGED <<stopped, pool, uFcid, uBh, uStopChan, uQueue, uSignal,
                   uFailures, uPoints, revLock, refreshes, lastContracts,
                   uploadVars>>

\* RevisionLocker.WithRevision gives the revision of a contract to one caller
\* at a time: the lock of the contract is free
RevisionFree(c) == revLock[c] = 0

\* rl.withRevision(upload.ctx, ..., u.fcid, ...): the worker waits for the
\* revision lock of its contract and runs upload.execute under it
UploaderLock(i) ==
    /\ upc[i] = "lock"
    /\ RevisionFree(uFcid[i])
    /\ revLock' = [revLock EXCEPT ![uFcid[i]] = i]
    /\ upc' = [upc EXCEPT ![i] = "rpc"]
    /\ UNCHANGED <<stopped, pool, uFcid, uBh, uStopChan, uQueue, uSignal,
                   uFailures, uPoints, refreshes, lastContracts, uploadVars>>

\* uploader.track, unless the error is a cancelled overdrive or a closed stream
Track(i, ok, tracked) ==
    IF tracked
    THEN /\ uFailures' = [uFailures EXCEPT ![i] =
                            IF ok THEN 0 ELSE Min(@ + 1, MaxTracked)]
         /\ uPoints' = [uPoints EXCEPT ![i] = Min(@ + 1, MaxTracked)]
    ELSE UNCHANGED <<uFailures, uPoints>>

\* the sector RPC ends and withRevision returns: the lock is released, the
\* response is sent or dropped, the outcome is tracked (an error only can be
\* left untracked)
UploaderExecute(i) ==
    /\ upc[i] = "rpc"
    /\ revLock' = [c \in PoolContracts |-> IF revLock[c] = i THEN 0 ELSE revLock[c]]
    /\ \E ok \in BOOLEAN, tracked \in BOOLEAN :
          /\ ok => tracked
          /\ Track(i, ok, tracked)
    /\ upc' = [upc EXCEPT ![i] = "test"]
    /\ UNCHANGED <<stopped, pool, uFcid, uBh, uStopChan, uQueue, uSignal,
                   refreshes, lastContracts, uploadVars>>

(* ------------------------------ statistics ---------------------------- *)

\* The calls above leave the clock out.  The functions that compute with
\* measured times and throughputs are followed one call at a time: statIn is
\* the call with its inputs, statOut its outcome.

engineVars == <<entry, bad, uploaders, maxOverdrive, excluded, readerLimit,
                readerGrain, objectVars, skipped, trackVars, stopped, poolVars, laterVars, roundVars,
                workerVars,
                chanVars, ongoing, used, sched, coordVars, slabVars, timerVars,
                driverVars, readerVars>>

SortedUploaders == 1..NumSorted

\* uploader.estimate of every uploader of the pool: the cached p90 in halves
\* (Percentile averages two neighbours) and the length of the queue
EstimateInputs ==
    [call : {"estimate"},
     p90x2 : [SortedUploaders -> 0..MaxP90x2],
     queued : [SortedUploaders -> 0..MaxQueued]]

\* uploader.track(err, d)
TrackInputs == [call : {"track"}, failed : BOOLEAN, ms : 0..MaxMs]

\* slabUpload.uploadSpeed: the shards remaining and the time since s.started
SpeedInputs == [call : {"uploadSpeed"}, left : 0..TotalShards, ms : 0..MaxMs]

\* slabUpload.overdrivePct: s.numLaunched
PctInputs == [call : {"overdrivePct"}, launched : 0..(TotalShards + MaxOverdrive)]

StatInputs == EstimateInputs \cup TrackInputs \cup SpeedInputs \cup PctInputs

\* int(x) of a float64 that is not negative
IntOf(x2) == x2 \div 2

\* a variant of uploader.estimate where no sample means no throughput: the
\* estimate of a cold uploader is the largest there is
estimateColdSlowest(p90x2, queued) ==
    IF IntOf(p90x2) = 0 THEN MaxInt64
    ELSE ((queued + 1) * SectorSize) \div IntOf(p90x2)

\* uploader.estimate: float64(outstanding / bytesPerMS), a division of ints
estimate(p90x2, queued) ==
    LET bytesPerMS == IF IntOf(p90x2) = 0 THEN MaxInt64 ELSE IntOf(p90x2)
        outstanding == (queued + 1) * SectorSize
    IN  outstanding \div bytesPerMS

\* the estimates of the call's uploaders
Estimates == [a \in SortedUploaders |-> estimate(statIn.p90x2[a], statIn.queued[a])]

\* sort.Slice(mgr.uploaders, estimate(i) < estimate(j)): an order in which
\* no uploader stands behind one with a larger estimate; sort.Slice is not
\* stable, the order of equal estimates is open
SortedBy(est) ==
    {o \in [SortedUploaders -> SortedUploaders] :
        /\ \A a \in SortedUploaders : \E i \in SortedUploaders : o[i] = a
        /\ \A i, j \in SortedUploaders : i < j => est[o[i]] <= est[o[j]]}

Returned(v) == [done |-> TRUE, panic |-> FALSE, value |-> v, order |-> <<>>]

\* Go's integer division by zero: a run-time panic
DividedByZero == [done |-> TRUE, panic |-> TRUE, value |-> 0, order |-> <<>>]

\* the sort of uploadManager.uploader
EstimateSort ==
    /\ statIn.call = "estimate"
    /\ ~statOut.done
    /\ \E o \in SortedBy(Estimates) :
          statOut' = [done |-> TRUE, panic |-> FALSE, value |-> 0, order |-> o]
    /\ UNCHANGED <<statIn, engineVars>>

\* uploader.track: statsSpeed.track(1) on an error, otherwise
\* statsSpeed.track(float64(rhpv2.SectorSize / d.Milliseconds()))
TrackSample ==
    /\ statIn.call = "track"
    /\ ~statOut.done
    /\ statOut' = IF statIn.failed THEN Returned(1)
                  ELSE IF statIn.ms = 0 THEN DividedByZero
                  ELSE Returned(SectorSize \div statIn.ms)
    /\ UNCHANGED <<statIn, engineVars>>

\* slabUpload.uploadSpeed: int64(bytes) / ms
UploadSpeed ==
    /\ statIn.call = "uploadSpeed"
    /\ ~statOut.done
    /\ LET completedShards == TotalShards - statIn.left
           bytes == completedShards * SectorSize
       IN  statOut' = IF statIn.ms = 0 THEN DividedByZero
                      ELSE Returned(bytes \div statIn.ms)
    /\ UNCHANGED <<statIn, engineVars>>

\* slabUpload.overdrivePct: float64(numOverdrive) / float64(len(s.sectors)),
\* in hundredths
OverdrivePct ==
    /\ statIn.call = "overdrivePct"
    /\ ~statOut.done
    /\ LET numOverdrive == statIn.launched - TotalShards
       IN  statOut' = IF numOverdrive <= 0 THEN Returned(0)
                      ELSE Returned((100 * numOverdrive) \div TotalShards)
    /\ UNCHANGED <<statIn, engineVars>>

(* ------------------------------ slab codec ---------------------------- *)

\* object/slab.go turns the data of a slab into encrypted shards and back.
\* One slab is followed through Encode and Encrypt (as uploadSlab calls
\* them), a download that misses some shards, and Decrypt, Reconstruct and
\* Recover.  A byte is scaled to a bit and XOR is the addition of bits.
\* Two libraries are called.  chacha20 gives, for a key, a nonce and a block
\* counter, one block of keystream; a block is as long as a leaf, and the
\* key is followed as the keystream it gives, any keystream at all.
\* reedsolomon.New(MinShards, N - MinShards) is followed in the shapes that
\* exist over bits: every parity shard is the XOR of the data shards, which
\* with one data shard repeats it.

nonObjectVars == <<entry, bad, uploaders, maxOverdrive, excluded, readerLimit,
                   readerGrain, statVars, skipped, trackVars, stopped, poolVars, laterVars, roundVars,
                   workerVars,
                   chanVars, ongoing, used, sched, coordVars, slabVars,
                   timerVars, driverVars, readerVars>>

Bits == {0, 1}
Xor(a, b) == (a + b) % 2

\* rhpv2.SectorSize in bytes: SectorSize counts the leaves of a sector
SectorBytes == SectorSize * LeafSize
\* Slab.Length
SlabBytes == MinShards * SectorBytes
DataShards == 0..(MinShards - 1)
\* the block counters of the keystream of one shard
Blocks == 0..(SectorSize - 1)

Plaintexts == [1..SlabBytes -> Bits]
Keys == [Shards -> [Blocks -> [1..LeafSize -> Bits]]]
\* make([]byte, 0, rhpv2.SectorSize)[:rhpv2.SectorSize]
ZeroShard == [q \in 1..SectorBytes |-> 0]

\* the slice uploadSlab makes of the slab: Offset 0, Length of the data
SliceOf(p) == [Offset |-> 0, Length |-> Len(p)]

\* bytes.Buffer.Next(n): the next n bytes, or what is left
Next_(buf, n) == SubSeq(buf, 1, Min(n, Len(buf)))
Rest(buf, n) == SubSeq(buf, Min(n, Len(buf)) + 1, Len(buf))

\* a variant of the copy that writes every stripe at the start of the shard
CopyAtStart(dst, off, src) ==
    [q \in 1..Len(dst) |-> IF q <= Len(src) THEN src[q] ELSE dst[q]]

\* copy(dst[off:], src)
Copy(dst, off, src) ==
    [q \in 1..Len(dst) |->
        IF q > off /\ q <= off + Len(src) THEN src[q - off] ELSE dst[q]]

\* the inner loop of stripedSplit, for _, shard := range dataShards, from
\* data shard j on
RECURSIVE SplitStripe(_, _, _, _)
SplitStripe(buf, off, j, sh) ==
    IF j = Cardinality(DOMAIN sh) THEN <<buf, sh>>
    ELSE SplitStripe(Rest(buf, LeafSize), off, j + 1,
                     [sh EXCEPT ![j] = Copy(sh[j], off, Next_(buf, LeafSize))])

\* stripedSplit, from offset off on
RECURSIVE stripedSplit(_, _, _)
stripedSplit(buf, off, sh) ==
    IF Len(buf) = 0 THEN sh
    ELSE LET r == SplitStripe(buf, off, 0, sh)
         IN  stripedSplit(r[1], off + LeafSize, r[2])

\* the parity shard of reedsolomon over bits
Parity(sh) ==
    [q \in 1..SectorBytes |->
        Cardinality({j \in DataShards : sh[j][q] = 1}) % 2]

\* rsc.Encode(shards): the data shards stay, the parity shards are computed
rsEncode(sh) == [i \in Shards |-> IF i \in DataShards THEN sh[i] ELSE Parity(sh)]

\* Slab.Encode on the nil shards of uploadSlab
Encode(buf) ==
    rsEncode(stripedSplit(buf, 0, [i \in DataShards |-> ZeroShard]))

\* cipher.XORKeyStream(shard, shard) of the cipher with this nonce, its block
\* counter set to counter
XORKeyStream(shard, nonce, counter) ==
    [q \in 1..Len(shard) |->
        Xor(shard[q],
            key[nonce][counter + ((q - 1) \div LeafSize)][((q - 1) % LeafSize) + 1])]

\* a variant of the nonce of Decrypt that is the same for every shard
NonceOfFirstShard(i) == 0

\* nonce := [24]byte{1: byte(i)} of Slab.Encrypt
EncryptNonce(i) == i % 256

\* nonce := [24]byte{1: byte(i)} of SlabSlice.Decrypt
DecryptNonce(i) == i % 256

\* Slab.Encrypt
Encrypt(sh) == [i \in Shards |-> XORKeyStream(sh[i], EncryptNonce(i), 0)]

\* SlabSlice.Decrypt
Decrypt(ss, sh) ==
    LET offset == ss.Offset \div (LeafSize * MinShards)
    IN  [i \in Shards |-> XORKeyStream(sh[i], DecryptNonce(i), offset)]

PresentShards(sh) == {i \in Shards : Len(sh[i]) # 0}

\* reedsolomon.ErrTooFewShards
TooFewShards(sh) == Cardinality(PresentShards(sh)) < MinShards

\* rsc.ReconstructData(shards): a missing data shard is the XOR of a parity
\* shard and the other data shards
rsReconstructData(sh) ==
    [i \in Shards |->
        IF i \in DataShards /\ i \notin PresentShards(sh)
        THEN LET p == CHOOSE h \in PresentShards(sh) : h \notin DataShards
             IN  [q \in 1..SectorBytes |->
                     (sh[p][q] + Cardinality({j \in DataShards \ {i} :
                                              sh[j][q] = 1})) % 2]
        ELSE sh[i]]

\* rsc.Reconstruct(shards): the parity shards too
rsReconstruct(sh) == rsEncode(rsReconstructData(sh))

\* the inner loop of stripedJoin, from data shard j on; the outer loop goes
\* on while writeLen > 0
RECURSIVE stripedJoin(_, _, _, _, _, _)
stripedJoin(sh, off, j, skip, writeLen, out) ==
    IF j = Cardinality(DOMAIN sh)
    THEN IF writeLen > 0 THEN stripedJoin(sh, off + LeafSize, 0, skip, writeLen, out)
         ELSE [err |-> "none", out |-> out]
    ELSE IF Len(sh[j]) - off < LeafSize
    THEN [err |-> "ErrShortData", out |-> out]
    ELSE IF skip >= LeafSize
    THEN stripedJoin(sh, off, j + 1, skip - LeafSize, writeLen, out)
    ELSE LET shard == SubSeq(sh[j], off + skip + 1, off + LeafSize)
             n == Min(writeLen, Len(shard))
         IN  stripedJoin(sh, off, j + 1, 0, writeLen - n,
                         out \o SubSeq(shard, 1, n))

\* SlabSlice.Recover(w, shards)
Recover(ss, sh) ==
    IF PresentShards(sh) = {} THEN [err |-> "none", out |-> <<>>]
    ELSE IF TooFewShards(sh) THEN [err |-> "ErrTooFewShards", out |-> <<>>]
    ELSE LET skip == ss.Offset % (LeafSize * MinShards)
         IN  IF ss.Length > 0
             THEN stripedJoin([i \in DataShards |-> rsReconstructData(sh)[i]],
                              0, 0, skip, ss.Length, <<>>)
             ELSE [err |-> "none", out |-> <<>>]

\* uploadSlab: resp.slab.Slab.Encode(data, shards)
EncodeSlab ==
    /\ cpc = "encode"
    /\ bufs' = Encode(plain)
    /\ cpc' = "encrypt"
    /\ UNCHANGED <<plain, key, lost, written, cerr, regionVars, nonObjectVars>>

\* uploadSlab: resp.slab.Slab.Encrypt(shards)
EncryptSlab ==
    /\ cpc = "encrypt"
    /\ bufs' = Encrypt(bufs)
    /\ cpc' = "download"
    /\ UNCHANGED <<plain, key, lost, written, cerr, regionVars, nonObjectVars>>

\* the shards come back from the hosts, except those of d
Download(d) ==
    /\ cpc = "download"
    /\ lost' = d
    /\ bufs' = [i \in Shards |-> IF i \in d THEN <<>> ELSE bufs[i]]
    /\ cpc' = "decrypt"
    /\ UNCHANGED <<plain, key, written, cerr, regionVars, nonObjectVars>>

\* ss.Decrypt(shards)
DecryptSlice ==
    /\ cpc = "decrypt"
    /\ bufs' = Decrypt(SliceOf(plain), bufs)
    /\ cpc' = "recover"
    /\ UNCHANGED <<plain, key, lost, written, cerr, regionVars, nonObjectVars>>

\* Slab.Reconstruct(shards)
ReconstructSlab ==
    /\ cpc = "recover"
    /\ IF TooFewShards(bufs)
       THEN cerr' = "ErrTooFewShards" /\ cpc' = "done" /\ bufs' = bufs
       ELSE cerr' = cerr /\ cpc' = "reconstructed" /\ bufs' = rsReconstruct(bufs)
    /\ UNCHANGED <<plain, key, lost, written, regionVars, nonObjectVars>>

\* ss.Recover(w, shards)
RecoverSlice ==
    /\ cpc \in {"recover", "reconstructed"}
    /\ LET r == Recover(SliceOf(plain), bufs)
       IN  written' = r.out /\ cerr' = r.err
    /\ cpc' = "done"
    /\ UNCHANGED <<plain, key, bufs, lost, regionVars, nonObjectVars>>

\* One round of the overdrive goroutine of a slab, with the clock: the timer
\* has fired, slab.overdrive is called on the state of the slab, and the
\* upload it returns is launched.  The slab is slab 0 of its upload.

\* everything the round reads but does not write
roundFixedVars == <<entry, bad, uploaders, maxOverdrive, excluded, readerLimit,
                    readerGrain, statVars, objectVars, skipped, trackVars,
                    stopped, poolVars, laterVars, wpc, wcur, chanVars, ongoing,
                    nextReadTriggered, remaining, sectors, errs, shardDone,
                    writes, tokensPut, slabVars, timerVars, driverVars,
                    readerVars>>

\* a variant of the test of the timeout that finds every overdrive due
OverdriveAlwaysDue == TRUE

\* if time.Since(s.lastOverdrive) < s.mgr.overdriveTimeout { return nil }
OverdriveDue == ~(sinceOverdrive < overdriveTimeout)

\* case <-timeout.C: upload := slab.overdrive(shardRespChan, shards)
OverdriveCall ==
    /\ opc = "timer"
    /\ LET choices == IF OverdriveDue THEN OverdriveChoices(0) ELSE {}
       IN  IF choices = {} THEN odOut' = NoReq
           ELSE \E i \in choices :
                    odOut' = [sID |-> 0, sectorIndex |-> i, overdrive |-> TRUE]
    /\ opc' = "returned"
    /\ UNCHANGED <<sinceOverdrive, overdriveTimeout, roundFixedVars, queue,
                   signalNewUpload, used, sched, numInflight, numLaunched,
                   overdriving>>

\* if upload != nil { _ = slab.launch(upload) }; resetTimeout()
OverdriveLaunch ==
    /\ opc = "returned"
    /\ IF odOut # NoReq /\ Candidates(0) # {}
       THEN /\ \E u \in Candidates(0) : Enqueue(odOut, u)
            /\ sinceOverdrive' = 0
       ELSE /\ NoEnqueue
            /\ UNCHANGED sinceOverdrive
    /\ opc' = "reset"
    /\ UNCHANGED <<overdriveTimeout, odOut, roundFixedVars>>

\* resetTimeout(), and the timer fires again: case <-timeout.C
OverdriveRearm ==
    /\ opc = "reset"
    /\ sinceOverdrive' = Min(sinceOverdrive + overdriveTimeout, MaxMs)
    /\ opc' = "timer"
    /\ UNCHANGED <<overdriveTimeout, odOut, roundFixedVars, queue,
                   signalNewUpload, used, sched, numInflight, numLaunched,
                   overdriving>>

\* The end of one round of uploader.start, for one uploader: the sector upload
\* has returned err after ms milliseconds, the response is sent or dropped,
\* and the outcome is tracked or not.  done is upload.done() at that moment.

UploadOutcomes ==
    [err : {"nil", "failed", "ErrClosedStream"}, done : BOOLEAN,
     overdrive : BOOLEAN, ms : 0..MaxMs]

\* everything but the statistics of the uploader
nonTrackVars == <<entry, bad, uploaders, maxOverdrive, excluded, readerLimit,
                  readerGrain, statVars, objectVars, skipped, stopped, poolVars, laterVars, roundVars,
                  workerVars, chanVars, ongoing, used, sched, coordVars,
                  slabVars, timerVars, driverVars, readerVars>>

\* a variant of the test for a cancelled overdrive that does not look at err
canceledOverdriveAlsoOnSuccess(up) == up.done /\ up.overdrive

\* canceledOverdrive := upload.done() && upload.overdrive && err != nil
canceledOverdrive(up) == up.done /\ up.overdrive /\ up.err # "nil"

\* isErrClosedStream := errors.Is(err, mux.ErrClosedStream)
isErrClosedStream(up) == up.err = "ErrClosedStream"

\* len(a.Float64Data)
Slots(a) == Cardinality(DOMAIN a.data)

\* a variant of dataPoints.track that empties the other slots
dataPointsTrackClears(a, p) ==
    [a EXCEPT !.data = [j \in DOMAIN a.data |->
                           IF j = a.cnt % Slots(a) THEN p ELSE 0],
              !.cnt = @ + 1]

\* dataPoints.track(p)
dataPointsTrack(a, p) ==
    [a EXCEPT !.data[a.cnt % Slots(a)] = p, !.cnt = @ + 1]

\* uploader.track(err, d): the counter is assigned before the division
track(up) ==
    IF up.err # "nil"
    THEN /\ consecutiveFailures' = consecutiveFailures + 1
         /\ statsSpeed' = dataPointsTrack(statsSpeed, 1)
         /\ lastTracked' = "failed"
         /\ UNCHANGED trackPanic
    ELSE /\ consecutiveFailures' = 0
         /\ lastTracked' = "succeeded"
         /\ IF up.ms = 0
            THEN trackPanic' = TRUE /\ UNCHANGED statsSpeed
            ELSE /\ statsSpeed' = dataPointsTrack(statsSpeed, SectorSize \div up.ms)
                 /\ UNCHANGED trackPanic

\* uploader.start, from the return of withRevision to the end of the round
ExecuteEnd(up) ==
    /\ ~trackPanic
    /\ executed < MaxExecuted
    /\ executed' = executed + 1
    /\ lastUpload' = up
    /\ IF ~canceledOverdrive(up) /\ ~isErrClosedStream(up)
       THEN track(up)
       ELSE UNCHANGED <<consecutiveFailures, statsSpeed, lastTracked, trackPanic>>
    /\ UNCHANGED nonTrackVars

\* uploader.healthy
healthy == consecutiveFailures = 0

\* SlabSlice.SectorRegion is followed one call at a time: ssIn is the slice,
\* ssOut the pair returned.  Every operation is one of uint32.

RegionInputs ==
    [call : {"SectorRegion"}, Offset : 0..(Uint32 - 1), Length : 0..(Uint32 - 1),
     MinShards : 1..TotalShards]

\* a variant of SectorRegion whose end is not rounded up to a whole chunk
SectorRegionRoundedDown(ss) ==
    LET minChunkSize == (LeafSize * ss.MinShards) % Uint32
        start == ((ss.Offset \div minChunkSize) * LeafSize) % Uint32
        end == ((((ss.Offset + ss.Length) % Uint32) \div minChunkSize) * LeafSize) % Uint32
    IN  <<start, (end - start + Uint32) % Uint32>>

\* SlabSlice.SectorRegion
SectorRegion(ss) ==
    LET minChunkSize == (LeafSize * ss.MinShards) % Uint32
        sum == (ss.Offset + ss.Length) % Uint32
        start == ((ss.Offset \div minChunkSize) * LeafSize) % Uint32
        floor == ((sum \div minChunkSize) * LeafSize) % Uint32
        end == IF sum % minChunkSize # 0 THEN (floor + LeafSize) % Uint32 ELSE floor
    IN  <<start, (end - start + Uint32) % Uint32>>

\* a call of ss.SectorRegion()
RegionCall ==
    /\ ssIn.call = "SectorRegion"
    /\ ssOut = <<>>
    /\ ssOut' = SectorRegion(ssIn)
    /\ UNCHANGED <<ssIn, codecVars, nonObjectVars>>

(* ---------------------------- specifications -------------------------- *)

\* a send on the closed respChan has panicked: the process is gone
Panicked == dpc = "panic"

Driver == UploadStart \/ ReadNext \/ DeferredCancel \/ (\E k \in Slabs : CollectResponse(k))

Coordinator(k) ==
    \/ LaunchInitial(k)
    \/ \E u \in Contracts, ok \in BOOLEAN : Receive(k, u, ok)
    \/ Finish(k)

Gate(k) == GateWake(k) \/ GateCheck(k)

Cancelled(k) == CollectCancelled(k) \/ RespondWithoutDriver(k)

Timer(k) == TimerFire(k) \/ TimerLaunch(k) \/ TimerExit(k)

Worker(u) == WorkerWake(u) \/ WorkerPop(u)

\* one call of Upload or of Migrate, with its slab coordinators, their
\* overdrive goroutines and the workers.  A reader of at most MaxBytes bytes
\* makes at most MaxParents slabs, so no launch finds the gate closed and the
\* gate's wait is left out
Next ==
    \/ Driver
    \/ MigrateStart
    \/ \E k \in Slabs : Coordinator(k) \/ Relaunch(k) \/ Cancelled(k) \/ Timer(k)
    \/ \E u \in Contracts : Worker(u) \/ WorkerDrop(u)

InitCall == Init \/ InitMigrate

Spec == InitCall /\ [][Next]_vars

\* the scheduling of the goroutines: the Go scheduler runs every goroutine
\* that can take a step
Fairness ==
    /\ WF_vars(Driver \/ MigrateStart)
    /\ \A k \in Slabs : WF_vars(Coordinator(k) \/ Relaunch(k) \/ Cancelled(k))
    /\ \A u \in Contracts : WF_vars(Worker(u) \/ WorkerDrop(u))

FairSpec == Spec /\ Fairness

\* one call of Upload on a healthy pool and a reader of up to GateSlabs whole
\* slabs: no sector upload fails, nothing is cancelled before Upload returns
\* and the pool leaves nothing to overdrive with
NextGate ==
    \/ Driver
    \/ \E k \in Slabs : Coordinator(k) \/ Gate(k)
    \/ \E u \in Contracts : Worker(u)

SpecGate == InitGate /\ [][NextGate]_vars

\* the ways Upload leaves its loop on a signal
Abort == UploadStopped \/ UploadTimedOut

Stopping(k) == CollectStopped(k)

\* a call of Upload on a healthy pool of TotalShards uploaders and a reader of
\* whole slabs, up to MaxBytes bytes
InitStop ==
    /\ entry = "upload"
    /\ uploaders = 1..TotalShards
    /\ bad = {}
    /\ maxOverdrive = 0
    /\ excluded = {}
    /\ readerLimit = MaxBytes
    /\ readerGrain = SlabSize
    /\ InitIdle

\* one call of Upload during which the manager may be stopped and the caller
\* may cancel.  No sector upload fails and the pool leaves nothing to
\* overdrive with, so there is no relaunch and the timer launches nothing
NextStop ==
    \/ Driver
    \/ Abort
    \/ Stop
    \/ CallerCancel
    \/ \E k \in Slabs : Coordinator(k) \/ Cancelled(k) \/ Stopping(k)
    \/ \E u \in Contracts : Worker(u) \/ WorkerDrop(u) \/ WorkerStop(u)

SpecStop == InitStop /\ [][NextStop]_vars

\* a step of a goroutine of the program: the driver, a slab coordinator or a
\* worker
Goroutines ==
    \/ Driver
    \/ Abort
    \/ \E k \in Slabs : Coordinator(k) \/ Cancelled(k) \/ Stopping(k)
    \/ \E u \in Contracts : Worker(u) \/ WorkerDrop(u) \/ WorkerStop(u)

\* the Go scheduler runs a goroutine that can take a step; Stop and the
\* caller's cancellation come from outside and need not happen
FairnessStop == WF_vars(Goroutines)

FairStop == SpecStop /\ FairnessStop

\* a manager after newUploadManager, with no call of Upload or Migrate
InitManager ==
    /\ entry = "none"
    /\ uploaders = {}
    /\ bad = {}
    /\ maxOverdrive = 0
    /\ excluded = {}
    /\ readerLimit = 0
    /\ readerGrain = 1
    /\ InitIdle

Uploader(i) ==
    \/ UploaderWake(i)
    \/ UploaderStopWait(i)
    \/ UploaderTest(i)
    \/ UploaderPop(i)
    \/ UploaderLock(i)
    \/ UploaderExecute(i)

\* the life of a manager: calls of RefreshUploaders, shards scheduled on its
\* uploaders, the workers of the uploaders, and a call of Stop
NextPool ==
    \/ \E contracts \in ContractLists, bh \in 1..MaxHeight :
          RefreshUploaders(contracts, bh)
    \/ Stop
    \/ \E i \in UploaderObjects : Schedule(i) \/ Uploader(i)

SpecPool == InitManager /\ [][NextPool]_vars

\* the Go scheduler runs every worker that can take a step
FairPool == SpecPool /\ \A i \in UploaderObjects : WF_vars(Uploader(i))

WorkerTraced(u) == WorkerWakeTraced(u) \/ WorkerPopTraced(u)

\* Next with the pops of the workers traced
NextTraced ==
    \/ Driver
    \/ MigrateStart
    \/ \E k \in Slabs : Coordinator(k) \/ Relaunch(k) \/ Cancelled(k) \/ Timer(k)
    \/ \E u \in Contracts : WorkerTraced(u) \/ WorkerDrop(u)

SpecTraced == InitCall /\ [][NextTraced]_vars

\* the sector uploads one uploader executes, with any outcomes
NextTrack == \E up \in UploadOutcomes : ExecuteEnd(up)

SpecTrack == InitManager /\ [][NextTrack]_vars

\* slab 0 of a call of Migrate in the middle of its upload: the shards of
\* rem remain, the others were stored through the contracts 1..N; of the
\* remaining shards, those of held still have their first upload in the queue
\* of the contract it was launched on; more uploads are in flight, more than
\* these; od counts the overdrives launched per shard
MidUpload(rem, held, more, od) ==
    /\ entry = "migrate"
    /\ uploaders = Contracts
    /\ bad = {}
    /\ excluded = {}
    /\ readerLimit = 0
    /\ readerGrain = 1
    /\ InitStats
    /\ InitObject
    /\ stopped = FALSE
    /\ InitLater
    /\ InitWindow
    /\ InitTrack
    /\ skipped = [u \in Contracts |-> FALSE]
    /\ InitPool
    /\ queue = [u \in Contracts |->
                  IF (u - 1) \in held
                  THEN <<[sID |-> 0, sectorIndex |-> u - 1, overdrive |-> FALSE]>>
                  ELSE <<>>]
    /\ signalNewUpload = [u \in Contracts |-> (u - 1) \in held]
    /\ wpc = [u \in Contracts |-> "wait"]
    /\ wcur = [u \in Contracts |-> NoReq]
    /\ nextReadTrigger = FALSE
    /\ doneShardTrigger = FALSE
    /\ ongoing = <<0>>
    /\ sched = [k \in Slabs |-> [u \in Contracts |->
                  IF k = 0 /\ (u - 1) \in Shards THEN 1 ELSE 0]]
    /\ spc = [k \in Slabs |-> IF k = 0 THEN "collect" ELSE "idle"]
    /\ remaining = [k \in Slabs |-> IF k = 0 THEN rem ELSE {}]
    /\ sectors = [k \in Slabs |-> [i \in Shards |->
                    IF k = 0 /\ i \notin rem THEN i + 1 ELSE 0]]
    /\ used = [k \in Slabs |-> IF k = 0 THEN {i + 1 : i \in Shards} ELSE {}]
    /\ shardDone = [k \in Slabs |-> IF k = 0 THEN Shards \ rem ELSE {}]
    /\ writes = [k \in Slabs |-> [i \in Shards |->
                    IF k = 0 /\ i \notin rem THEN 1 ELSE 0]]
    /\ numInflight = [k \in Slabs |->
                        IF k = 0 THEN Cardinality(held) + more ELSE 0]
    /\ numLaunched = [k \in Slabs |->
                        IF k = 0 THEN TotalShards + more ELSE 0]
    /\ overdriving = [k \in Slabs |-> IF k = 0 THEN od ELSE [i \in Shards |-> 0]]
    /\ nextReadTriggered = [k \in Slabs |-> FALSE]
    /\ errs = [k \in Slabs |-> {}]
    /\ lidx = [k \in Slabs |-> 0]
    /\ serr = [k \in Slabs |-> "none"]
    /\ slen = [k \in Slabs |-> IF k = 0 THEN SlabSize ELSE 0]
    /\ tpc = [k \in Slabs |-> "off"]
    /\ tod = [k \in Slabs |-> 0]
    /\ dpc = "start"
    /\ slabIndex = 0
    /\ numSlabs = -1
    /\ responses = <<>>
    /\ respClosed = FALSE
    /\ ctxDone = FALSE
    /\ retErr = "none"
    /\ object = <<>>
    /\ byteCount = 0
    /\ reads = 0
    /\ tokensPut = 0
    /\ readerEOF = FALSE
    /\ odOut = NoReq
    /\ opc = "timer"

\* the timer of slab 0 fires in any state of the slab: any shards remain, any
\* number of uploads is in flight, any overdrives were launched, any time has
\* passed since the last of them
InitOverdrive ==
    /\ maxOverdrive \in 0..MaxOverdrive
    /\ \E rem \in SUBSET Shards, more \in 0..(TotalShards + MaxOverdrive),
          od \in [Shards -> 0..MaxOverdrive] :
          MidUpload(rem, {}, more, od)
    /\ sinceOverdrive \in 0..MaxMs
    /\ overdriveTimeout \in 0..MaxMs

NextOverdrive == OverdriveCall \/ OverdriveLaunch \/ OverdriveRearm

SpecOverdrive == InitOverdrive /\ [][NextOverdrive]_vars

\* the rounds of the overdrive goroutine of slab 0 next to the workers that
\* hold its uploads and to the responses the coordinator receives
InitShare ==
    /\ maxOverdrive \in 0..MaxOverdrive
    /\ \E rem \in SUBSET Shards, more \in 0..MaxQueue,
          od \in [Shards -> 0..MaxOverdrive] :
          \E held \in SUBSET rem : MidUpload(rem, held, more, od)
    /\ sinceOverdrive = 0
    /\ overdriveTimeout = 0

NextShare ==
    \/ OverdriveCall
    \/ OverdriveLaunch
    \/ OverdriveRearm
    \/ \E u \in Contracts, ok \in BOOLEAN : Receive(0, u, ok)
    \/ Relaunch(0)
    \/ \E u \in Contracts : Worker(u) \/ WorkerDrop(u)

SpecShare == InitShare /\ [][NextShare]_vars

\* one call of a function of the statistics, on any inputs
InitCallStats ==
    /\ entry = "none"
    /\ uploaders = {}
    /\ bad = {}
    /\ maxOverdrive = 0
    /\ excluded = {}
    /\ readerLimit = 0
    /\ readerGrain = 1
    /\ statIn \in StatInputs
    /\ statOut = NoOutcome
    /\ InitObject
    /\ InitEngine

NextStats == EstimateSort \/ TrackSample \/ UploadSpeed \/ OverdrivePct

SpecStats == InitCallStats /\ [][NextStats]_vars

\* one slab of any data under any key through the codec
InitCodec ==
    /\ entry = "none"
    /\ uploaders = {}
    /\ bad = {}
    /\ maxOverdrive = 0
    /\ excluded = {}
    /\ readerLimit = 0
    /\ readerGrain = 1
    /\ InitStats
    /\ InitEngine
    /\ plain \in Plaintexts
    /\ key \in Keys
    /\ bufs = [i \in Shards |-> <<>>]
    /\ cpc = "encode"
    /\ lost = {}
    /\ written = <<>>
    /\ cerr = "none"
    /\ ssIn = [call |-> "none"]
    /\ ssOut = <<>>

NextCodec ==
    \/ EncodeSlab
    \/ EncryptSlab
    \/ (\E d \in SUBSET Shards : Download(d))
    \/ DecryptSlice
    \/ ReconstructSlab
    \/ RecoverSlice

SpecCodec == InitCodec /\ [][NextCodec]_vars

\* one call of SectorRegion on any slice
InitRegion ==
    /\ entry = "none"
    /\ uploaders = {}
    /\ bad = {}
    /\ maxOverdrive = 0
    /\ excluded = {}
    /\ readerLimit = 0
    /\ readerGrain = 1
    /\ InitStats
    /\ InitEngine
    /\ plain = <<>>
    /\ key = <<>>
    /\ bufs = <<>>
    /\ cpc = "none"
    /\ lost = {}
    /\ written = <<>>
    /\ cerr = "none"
    /\ ssIn \in RegionInputs
    /\ ssOut = <<>>

NextRegion == RegionCall

SpecRegion == InitRegion /\ [][NextRegion]_vars

(* ------------------------------- striping ----------------------------- *)

\* One call of stripedSplit on data shards of a sector each, and one call of
\* stripedJoin on the shards it filled.

StripeShards == 0..(NumStripeShards - 1)
\* the data the shards can hold
StripeBytes == NumStripeShards * SectorBytes

\* any data that fits
InitStripe ==
    /\ entry = "none"
    /\ uploaders = {}
    /\ bad = {}
    /\ maxOverdrive = 0
    /\ excluded = {}
    /\ readerLimit = 0
    /\ readerGrain = 1
    /\ InitStats
    /\ InitEngine
    /\ plain \in UNION {[1..n -> Bits] : n \in 0..StripeBytes}
    /\ key = <<>>
    /\ bufs = <<>>
    /\ cpc = "split"
    /\ lost = {}
    /\ written = <<>>
    /\ cerr = "none"
    /\ ssIn = [call |-> "none"]
    /\ ssOut = <<>>

\* everything but the shards, the call of stripedJoin and its outcome
stripeFixedVars == <<entry, bad, uploaders, maxOverdrive, excluded,
                     readerLimit, readerGrain, statVars, plain, key, lost,
                     regionVars, skipped, trackVars, stopped, poolVars,
                     lockVars, windowVars, roundVars, workerVars, chanVars,
                     ongoing, used, sched, coordVars, slabVars, timerVars,
                     driverVars, readerVars>>

\* stripedSplit(data, dataShards) on shards of rhpv2.SectorSize zero bytes
StripedSplit ==
    /\ cpc = "split"
    /\ bufs' = stripedSplit(plain, 0, [i \in StripeShards |-> ZeroShard])
    /\ cpc' = "join"
    /\ UNCHANGED <<joinIn, written, cerr, stripeFixedVars>>

\* stripedJoin(dst, dataShards, skip, writeLen)
StripedJoin(skip, writeLen) ==
    /\ cpc = "join"
    /\ joinIn' = [call |-> "stripedJoin", skip |-> skip, writeLen |-> writeLen]
    /\ LET r == stripedJoin(bufs, 0, 0, skip, writeLen, <<>>)
       IN  written' = r.out /\ cerr' = r.err
    /\ cpc' = "joined"
    /\ UNCHANGED <<bufs, stripeFixedVars>>

NextStripe ==
    \/ StripedSplit
    \/ \E skip \in 0..StripeBytes, writeLen \in 0..StripeBytes :
          StripedJoin(skip, writeLen)

SpecStripe == InitStripe /\ [][NextStripe]_vars

(* ----------------------------- stats window --------------------------- *)

\* One dataPoints of the capacity of newDataPoints through calls of track,
\* recompute and percentileP90.  A p90 is kept in halves, as Percentile can
\* return the mean of two samples.

\* the sorted copy Percentile makes of the samples: its element at index i,
\* counted from 0
SortedAt(data, i) ==
    CHOOSE v \in {data[j] : j \in DOMAIN data} :
        /\ Cardinality({j \in DOMAIN data : data[j] < v}) <= i
        /\ i < Cardinality({j \in DOMAIN data : data[j] <= v})

\* stats.Percentile(input, percent) of github.com/montanaflynn/stats, which
\* a.Percentile(90) calls: index := (percent / 100) * len; a whole index takes
\* the sample below it, any other index above 1 the mean of its neighbours
Percentile(data, percent) ==
    LET n == Cardinality(DOMAIN data)
        i == (percent * n) \div 100
    IN  IF n = 0 THEN [err |-> "EmptyInput", x2 |-> 0]
        ELSE IF n = 1 THEN [err |-> "none", x2 |-> 2 * data[0]]
        ELSE IF percent <= 0 \/ percent > 100 THEN [err |-> "Bounds", x2 |-> 0]
        ELSE IF (percent * n) % 100 = 0
        THEN [err |-> "none", x2 |-> 2 * SortedAt(data, i - 1)]
        ELSE IF percent * n > 100
        THEN [err |-> "none", x2 |-> SortedAt(data, i - 1) + SortedAt(data, i)]
        ELSE [err |-> "Bounds", x2 |-> 0]

\* dataPoints.recompute: the p90 of all the slots, 0 on an error, is cached
recompute(a) ==
    LET r == Percentile(a.data, 90)
    IN  [a EXCEPT !.p90x2 = IF r.err # "none" THEN 0 ELSE r.x2]

\* a variant of dataPoints.percentileP90 that computes the p90 of the samples
percentileP90Recomputes(a) == recompute(a).p90x2

\* dataPoints.percentileP90: the cached value
percentileP90(a) == a.p90x2

\* the values of a sample
Samples == 0..MaxSample

\* a window that every slot of which holds v, after cnt calls of track
Uniform(v, cnt, p) == [data |-> [j \in 0..(WindowLen - 1) |-> v], cnt |-> cnt, p90x2 |-> p]

\* the windows a run starts with: a new one, or one that calls of track(v)
\* have filled, at the start and at the end of the ring, whose p90 was
\* recomputed when it was full or never
InitWindows ==
    /\ \/ /\ window = newDataPoints
          /\ recomputed = NeverRecomputed
       \/ \E v \in Samples, cnt \in {WindowLen, 2 * WindowLen - 1} :
             \/ /\ window = Uniform(v, cnt, 0)
                /\ recomputed = NeverRecomputed
             \/ /\ window = Uniform(v, cnt, 2 * v)
                /\ recomputed = [done |-> TRUE, cnt |-> cnt, p90x2 |-> 2 * v]
    /\ p90Out = NoP90
    /\ tracks = 0
    /\ entry = "none"
    /\ uploaders = {}
    /\ bad = {}
    /\ maxOverdrive = 0
    /\ excluded = {}
    /\ readerLimit = 0
    /\ readerGrain = 1
    /\ InitStats
    /\ InitObject
    /\ InitParts

\* everything but the window
nonWindowVars == <<entry, bad, uploaders, maxOverdrive, excluded, readerLimit,
                   readerGrain, statVars, objectVars, skipped, trackVars,
                   roundVars, lockVars, joinIn, stopped, poolVars, workerVars,
                   chanVars, ongoing, used, sched, coordVars, slabVars,
                   timerVars, driverVars, readerVars>>

\* a.track(p)
WindowTrack(p) ==
    /\ tracks < MaxWindowTracks
    /\ window' = dataPointsTrack(window, p)
    /\ tracks' = tracks + 1
    /\ UNCHANGED <<p90Out, recomputed, nonWindowVars>>

\* a.recompute()
WindowRecompute ==
    /\ window' = recompute(window)
    /\ recomputed' = [done |-> TRUE, cnt |-> window.cnt, p90x2 |-> window'.p90x2]
    /\ UNCHANGED <<p90Out, tracks, nonWindowVars>>

\* a.percentileP90()
WindowP90 ==
    /\ p90Out' = [done |-> TRUE, p90x2 |-> percentileP90(window)]
    /\ UNCHANGED <<window, recomputed, tracks, nonWindowVars>>

NextWindow ==
    \/ \E p \in Samples : WindowTrack(p)
    \/ WindowRecompute
    \/ WindowP90

SpecWindow == InitWindows /\ [][NextWindow]_vars

(* ------------------------------- mutexes ------------------------------ *)

\* The functions of upload.go as the Lock and Unlock calls they make, in the
\* order of the program; a deferred Unlock stands where the function returns.
\* A task runs one function at a time, a step at a time; a Lock waits while
\* another task holds the mutex.

Lock(m) == <<"lock", m>>
Unlock(m) == <<"unlock", m>>

\* dataPoints.recompute, percentileP90 and track: a.mu only
dataPointsLocks(m) == <<Lock(m), Unlock(m)>>

\* uploader.pop, blockHeight, healthy, updateBlockHeight and schedule: u.mu only
uploaderOnly == <<Lock("uploader"), Unlock("uploader")>>

\* upload.canUseUploader, registerUsedUploader and newSlabUpload: u.mu only
uploadOnly == <<Lock("upload"), Unlock("upload")>>

\* uploadManager.numUploaders, newUpload and Stop: mgr.mu only
mgrOnly == <<Lock("mgr"), Unlock("mgr")>>

\* slabUpload.receive, inflight, tryTriggerNextRead, overdrive, overdriveCnt,
\* overdrivePct and uploadSpeed: s.mu only
slabOnly(s) == <<Lock(s), Unlock(s)>>

\* uploader.estimate: u.mu, and the mu of u.statsSpeed under it
estimateLocks ==
    <<Lock("uploader")>> \o dataPointsLocks("statsSpeed") \o <<Unlock("uploader")>>

\* uploadManager.uploader on a pool that is not empty: under mgr.mu the
\* recompute of the stats, the estimates of the sort and canUseUploader; then
\* the loop that reads upload.ongoing under upload.mu and waits at the gate
uploaderLocks ==
    <<Lock("mgr")>> \o dataPointsLocks("statsSpeed") \o estimateLocks
        \o uploadOnly \o <<Unlock("mgr")>> \o uploadOnly \o <<<<"gate", "none">>>>

\* a variant of uploadManager.enqueue that takes the mutex of the upload
\* first and the mutex of the manager under it
enqueueUploadFirst ==
    uploaderLocks \o uploaderOnly
        \o <<Lock("upload"), Lock("mgr"), Unlock("mgr"), Unlock("upload")>>

\* uploadManager.enqueue: mgr.uploader(s), uploader.schedule(s), then
\* registerUsedUploader under mgr.mu
enqueueLocks ==
    uploaderLocks \o uploaderOnly \o <<Lock("mgr")>> \o uploadOnly \o <<Unlock("mgr")>>

\* slabUpload.launch: the whole of enqueue under s.mu
launchLocks(s) == <<Lock(s)>> \o enqueueLocks \o <<Unlock(s)>>

\* slabUpload.finish with shards remaining: mgr.numUploaders() under s.mu
finishLocks(s) == <<Lock(s)>> \o mgrOnly \o <<Unlock(s)>>

\* the end of uploadShards: overdriveCnt, overdrivePct and the track of
\* mgr.statsOverdrive, uploadSpeed and the track of mgr.statsSpeed, finish
trackStatsLocks(s) ==
    slabOnly(s) \o slabOnly(s) \o dataPointsLocks("mgrStatsOverdrive")
        \o slabOnly(s) \o dataPointsLocks("mgrStatsSpeed") \o finishLocks(s)

\* upload.finishSlabUpload: upload.mu, then the mu of the slab
finishSlabUploadLocks(s) == uploadOnly \o slabOnly(s)

\* a round of the overdrive goroutine: slab.overdrive, then slab.launch
overdriveLocks(s) == slabOnly(s) \o launchLocks(s)

\* uploadManager.Stats: under mgr.mu the recompute of mgr.statsSpeed and of
\* mgr.statsOverdrive, then recompute, percentileP90 and healthy of the uploader
StatsLocks ==
    <<Lock("mgr")>> \o dataPointsLocks("mgrStatsSpeed")
        \o dataPointsLocks("mgrStatsOverdrive") \o dataPointsLocks("statsSpeed")
        \o dataPointsLocks("statsSpeed") \o uploaderOnly \o <<Unlock("mgr")>>

\* uploadManager.RefreshUploaders: updateBlockHeight under mgr.mu
RefreshUploadersLocks == <<Lock("mgr")>> \o uploaderOnly \o <<Unlock("mgr")>>

\* the mutex of the slab of a task
SlabOf(t) == IF t = "coordinator2" THEN "slab2" ELSE "slab1"

\* the functions a task calls
Functions(t) ==
    CASE t \in {"coordinator1", "coordinator2"} ->
            {"newSlabUpload", "launch", "receive", "trackStats", "finishSlabUpload"}
      [] t = "timer1" -> {"overdrive"}
      [] t = "caller" -> {"Stats", "RefreshUploaders", "Stop"}

LocksOf(t, fn) ==
    CASE fn = "newSlabUpload" -> uploadOnly
      [] fn = "launch" -> launchLocks(SlabOf(t))
      [] fn = "receive" -> slabOnly(SlabOf(t))
      [] fn = "trackStats" -> trackStatsLocks(SlabOf(t))
      [] fn = "finishSlabUpload" -> finishSlabUploadLocks(SlabOf(t))
      [] fn = "overdrive" -> overdriveLocks(SlabOf(t))
      [] fn = "Stats" -> StatsLocks
      [] fn = "RefreshUploaders" -> RefreshUploadersLocks
      [] fn = "Stop" -> mgrOnly

\* the step a task is at
StepOf(t) == LocksOf(t, task[t].fn)[task[t].at]

\* the task goes on to its next step, or returns from the function
Advance(t) ==
    task' = [task EXCEPT ![t] =
                IF task[t].at = Len(LocksOf(t, task[t].fn)) THEN Idle
                ELSE [fn |-> task[t].fn, at |-> task[t].at + 1]]

\* the task calls a function
CallLocks(t, fn) ==
    /\ task[t] = Idle
    /\ task' = [task EXCEPT ![t] = [fn |-> fn, at |-> 1]]
    /\ UNCHANGED holder

\* mu.Lock() returns: the mutex was free
Acquire(t) ==
    /\ task[t] # Idle
    /\ StepOf(t)[1] = "lock"
    /\ holder[StepOf(t)[2]] = "none"
    /\ holder' = [holder EXCEPT ![StepOf(t)[2]] = t]
    /\ Advance(t)

\* mu.Unlock()
Release(t) ==
    /\ task[t] # Idle
    /\ StepOf(t)[1] = "unlock"
    /\ holder' = [holder EXCEPT ![StepOf(t)[2]] = "none"]
    /\ Advance(t)

\* the gate of uploadManager.uploader is open: return candidates[0]
GatePass(t) ==
    /\ task[t] # Idle
    /\ StepOf(t)[1] = "gate"
    /\ Advance(t)
    /\ UNCHANGED holder

\* case <-upload.doneShardTrigger: continue loop, back to upload.mu.Lock()
GateContinue(t) ==
    /\ task[t] # Idle
    /\ StepOf(t)[1] = "gate"
    /\ task' = [task EXCEPT ![t].at = @ - 2]
    /\ UNCHANGED holder

\* everything but the mutexes and the tasks
nonLockVars == <<entry, bad, uploaders, maxOverdrive, excluded, readerLimit,
                 readerGrain, statVars, objectVars, skipped, trackVars,
                 roundVars, joinIn, windowVars, stopped, poolVars, workerVars,
                 chanVars, ongoing, used, sched, coordVars, slabVars,
                 timerVars, driverVars, readerVars>>

\* the steps of the tasks, the rest of the model left alone
Calls == (\E t \in Tasks : \E fn \in Functions(t) : CallLocks(t, fn)) /\ UNCHANGED nonLockVars
Acquires == (\E t \in Tasks : Acquire(t)) /\ UNCHANGED nonLockVars
Releases == (\E t \in Tasks : Release(t)) /\ UNCHANGED nonLockVars
GatePasses == (\E t \in Tasks : GatePass(t)) /\ UNCHANGED nonLockVars
GateContinues == (\E t \in Tasks : GateContinue(t)) /\ UNCHANGED nonLockVars

NextLocks == Calls \/ Acquires \/ Releases \/ GatePasses \/ GateContinues

SpecLocks == InitManager /\ [][NextLocks]_vars

(* ------------------------------ properties ---------------------------- *)

CeilDiv(a, b) == (a + b - 1) \div b

\* Upload has left its loop with an object to return
ReturnsObject ==
    entry = "upload" /\ dpc \in {"closed", "returned"} /\ retErr = "none"

\* Migrate has returned
MigrateReturned == entry = "migrate" /\ dpc = "returned"

\* a shard of the slab waits in an uploader's queue or is being executed
HasShard(k) ==
    \E u \in Contracts :
        \/ wpc[u] = "busy" /\ wcur[u].sID = k
        \/ \E j \in 1..Len(queue[u]) : queue[u][j].sID = k

InOngoing(k) == \E j \in 1..Len(ongoing) : ongoing[j] = k

\* uploadShards has returned the slab's sectors, and they are still in the
\* coordinator's hands (Upload) or are Migrate's result
Completed(k) ==
    /\ serr[k] = "none"
    /\ \/ spc[k] = "respond"
       \/ entry = "migrate" /\ spc[k] = "done"

\* C1: with a healthy pool and a reader that supplies at least one slab,
\* every call of Upload eventually returns, under fair scheduling of the
\* driver, the slab coordinators and the workers and whatever order the
\* driver's select takes next-read tokens and slab responses in.
C1_UploadReturns ==
    (entry = "upload" /\ bad = {} /\ slabIndex >= 1) ~> (dpc = "returned")

\* C2: whenever Upload returns an object, its number of slabs is
\* ceil(byteCount / (MinShards * SectorSize)) and every slab that was
\* spawned has delivered its response.
C2_SlabCount ==
    ReturnsObject =>
        /\ Len(object) = CeilDiv(byteCount, MinShards * SectorSize)
        /\ \A k \in Slabs : k < slabIndex => spc[k] = "done"

\* an object of two slabs whose last slab is short
C2_Witness ==
    /\ ReturnsObject
    /\ Len(object) = 2
    /\ byteCount % SlabSize # 0

\* C3: every launch of a shard upload (initial, relaunch, overdrive) enqueues
\* on a contract not used before for the slab, so no contract is scheduled
\* twice for a slab and no contract id is in two of the slab's sectors.
C3_NoContractReuse ==
    \A k \in Slabs :
        /\ \A u \in Contracts : sched[k][u] <= 1
        /\ \A i, j \in Shards :
              (i # j /\ sectors[k][i] # 0) => sectors[k][i] # sectors[k][j]

\* Migrate returned the sectors of a slab that launched more uploads than it
\* has shards
C3_Witness ==
    /\ MigrateReturned
    /\ retErr = "none"
    /\ numLaunched[0] > TotalShards
    /\ \A i \in Shards : sectors[0][i] # 0

\* C4: every sector slot of a coordinator is written at most once, and
\* exactly once in a completed slab; once a success for shard index i is
\* stored, no later response changes sectors[i] or puts i back in remaining.
C4_SlotWrittenOnce ==
    /\ [](\A k \in Slabs : \A i \in Shards :
            /\ writes[k][i] <= 1
            /\ Completed(k) => writes[k][i] = 1 /\ sectors[k][i] # 0)
    /\ [][\A k \in Slabs : \A i \in Shards :
            (sectors[k][i] # 0 /\ spc[k] = "collect") =>
                /\ sectors'[k][i] = sectors[k][i]
                /\ i \notin remaining'[k]]_vars

\* a completed slab all of whose launches were answered without an error:
\* one of its successes was a duplicate and was discarded
C4_Witness ==
    /\ Completed(0)
    /\ numLaunched[0] > TotalShards
    /\ numInflight[0] = 0
    /\ errs[0] = {}

\* C5: a shard is handed to an uploader's queue only while fewer than 3
\* slabs older than its own are in upload.ongoing; hence at most 3 unfinished
\* slabs at a time have shards enqueued or executing.
C5_GatedEnqueue ==
    /\ [](Cardinality({k \in Slabs : InOngoing(k) /\ HasShard(k)}) <= MaxParents)
    /\ [][\A k \in Slabs :
            numLaunched'[k] > numLaunched[k] =>
                /\ InOngoing(k)
                /\ Cardinality({j \in Slabs : j < k /\ InOngoing(j)}) < MaxParents]_vars

\* three slabs have shards on the uploaders while a fourth waits at the gate
C5_Witness ==
    /\ Cardinality({k \in Slabs : InOngoing(k) /\ HasShard(k)}) = MaxParents
    /\ \E k \in Slabs : spc[k] = "gatewait" /\ numLaunched[k] = 0

\* C6 as stated: the slab ids in upload.ongoing never number more than 3.
C6_AtMostThreeCoordinators == Len(ongoing) <= MaxParents

\* C6, amended: the slab ids in upload.ongoing never number more than 4: the
\* three slabs the gate lets through, and one that waits at the gate.
C6_AtMostFourCoordinators == Len(ongoing) <= MaxParents + 1

\* four coordinators exist, the youngest for the last slab of the reader
C6_Witness ==
    /\ Len(ongoing) = MaxParents + 1
    /\ slabIndex = GateSlabs

\* C7: during Migrate no shard upload is enqueued on an excluded contract,
\* and no sector of the slab was stored through one.
C7_ExcludedNeverUsed ==
    \A k \in Slabs : \A u \in excluded :
        /\ sched[k][u] = 0
        /\ queue[u] = <<>>
        /\ \A i \in Shards : sectors[k][i] # u

\* Migrate returned the sectors with an uploader of the pool excluded
C7_Witness ==
    /\ MigrateReturned
    /\ retErr = "none"
    /\ excluded \cap uploaders # {}

\* C8: Upload and Migrate return NotEnoughUploaders exactly when fewer than
\* TotalShards uploaders of the pool are not excluded; then nothing was read
\* and no shard was enqueued.
C8_NotEnoughUploaders ==
    /\ dpc # "start" =>
          (retErr = "NotEnoughUploaders"
              <=> Cardinality(uploaders \ excluded) < TotalShards)
    /\ retErr = "NotEnoughUploaders" =>
          /\ byteCount = 0 /\ ~readerEOF /\ slabIndex = 0
          /\ \A u \in Contracts : queue[u] = <<>> /\ ~signalNewUpload[u]
          /\ \A k \in Slabs : numLaunched[k] = 0

\* the pool is large enough, but too much of it is excluded
C8_Witness ==
    /\ retErr = "NotEnoughUploaders"
    /\ Cardinality(uploaders) >= TotalShards

\* C9: with a pool of TotalShards + 1 contracts of which exactly one always
\* fails, the slab upload completes with every sector filled, and the
\* failing host is the host of no sector.
C9_SurvivesOneBadHost ==
    (/\ MigrateReturned
     /\ Cardinality(uploaders \ excluded) = TotalShards + 1
     /\ Cardinality(bad \ excluded) = 1)
    => /\ retErr = "none"
       /\ \A i \in Shards : sectors[0][i] # 0 /\ sectors[0][i] \notin bad

\* C10: in the object Upload returns, Slabs[i] is the slab of the i-th chunk
\* read, whatever order the slabs delivered their responses in.
C10_SlabsInReadOrder ==
    ReturnsObject =>
        \A i \in 1..Len(object) :
            object[i].chunk = i - 1 /\ object[i].length = slen[i - 1]

\* the second slab delivered its response before the first
C10_Witness ==
    /\ ReturnsObject
    /\ Len(responses) = 2
    /\ responses[1].index > responses[2].index

\* C11: Upload returns an object only if every slab it spawned completed
\* without error; when the driver collects a slab response that carries an
\* error, Upload returns that error and no object.
C11_SlabErrorFailsObject ==
    /\ [](/\ ReturnsObject =>
                /\ Len(responses) = slabIndex
                /\ \A k \in Slabs : k < slabIndex => serr[k] = "none"
          /\ retErr # "none" => object = <<>>)
    /\ [][\A k \in Slabs :
            (dpc = "loop" /\ spc[k] = "respond" /\ spc'[k] = "done") =>
                IF serr[k] # "none"
                THEN /\ retErr' = serr[k]
                     /\ dpc' = "closed"
                     /\ responses' = responses
                     /\ object' = <<>>
                ELSE /\ remaining[k] = {}
                     /\ \A i \in Shards : sectors[k][i] # 0]_vars

\* Upload returned the error of a slab after it had spawned a second slab
C11_Witness ==
    /\ entry = "upload"
    /\ dpc = "returned"
    /\ retErr = "SlabUploadFailed"
    /\ slabIndex = 2

\* the driver is in its loop and a case of its select for the manager's stop
\* or the context's cancellation is ready
Signalled == dpc = "loop" /\ (stopped \/ ctxDone)

\* C12 as stated: once the manager is stopped or the caller's context is
\* cancelled, an Upload in its main loop returns an error: it returns no
\* object and it does not wait forever.
C12_SignalFailsUpload ==
    /\ [][(Signalled /\ dpc' # "loop") => retErr' # "none"]_vars
    /\ (Signalled ~> dpc # "loop")

\* C12: once the manager is stopped or the caller's context is cancelled, an
\* Upload in its main loop leaves the loop; it returns an error, unless the
\* response of its last slab was ready in the same select and was taken: then
\* it returns the object of all its slabs.
C12_SignalEndsUpload ==
    /\ [][(Signalled /\ dpc' # "loop") =>
            \/ retErr' \in {"ManagerStopped", "UploadTimedOut", "UploadStopped",
                            "Cancelled"}
            \/ /\ retErr' = "none"
               /\ \E k \in Slabs : spc[k] = "respond" /\ spc'[k] = "done"
               /\ Len(responses') = numSlabs
               /\ object' = Decorate(responses')]_vars
    /\ (Signalled ~> dpc # "loop")

\* Upload has returned the error of the manager's stop after it spawned a slab
C12_Witness ==
    /\ stopped
    /\ dpc = "returned"
    /\ retErr = "ManagerStopped"
    /\ slabIndex >= 1

\* the worker of contract u has a sector upload in its hands
InFlight(u) == wpc[u] = "busy"

\* the workers of the pool have returned from uploader.start
WorkersGone == \A u \in uploaders : wpc[u] \in {"exited", "panic"}

\* Stop cancels nothing: the sector uploads in flight stay in flight and no
\* context is cancelled
StopCancelsNothing ==
    (~stopped /\ stopped') =>
        /\ wcur' = wcur
        /\ \A u \in Contracts : InFlight(u) => InFlight(u)'
        /\ ctxDone' = ctxDone
        /\ shardDone' = shardDone

\* C15 as stated: after Stop() no worker starts a sector upload it had not
\* started before, every worker of the pool terminates, and Stop cancels no
\* sector RPC in flight.
C15_StopStartsNothing ==
    /\ [][stopped => \A u \in Contracts : InFlight(u)' => InFlight(u)]_vars
    /\ [][StopCancelsNothing]_vars
    /\ (stopped ~> WorkersGone)

\* C15: after Stop() a worker starts at most one more sector upload, and only
\* a worker whose stop test ran before Stop closed its stop signal; every
\* worker of the pool terminates, and Stop cancels no sector RPC in flight.
C15_StopStartsAtMostOne ==
    /\ [][stopped => \A u \in Contracts :
            /\ (InFlight(u)' /\ ~InFlight(u)) => wpc[u] = "popping"
            /\ wpc'[u] = "popping" => wpc[u] = "popping"]_vars
    /\ [][StopCancelsNothing]_vars
    /\ (stopped ~> WorkersGone)

\* the manager is stopped while a worker has a sector upload in flight and
\* another, past its stop test, is about to pop a shard that is not done
C15_Witness ==
    /\ stopped
    /\ \E u, v \in uploaders :
          /\ InFlight(v)
          /\ wpc[u] = "popping"
          /\ queue[u] # <<>>
          /\ ~Done(Head(queue[u]))

\* a call of RefreshUploaders returns in this step
Refreshed == refreshes' = refreshes + 1

\* the contracts of the pool's uploaders
PoolFcids == {uFcid[i] : i \in Range(pool)}

\* C13: after RefreshUploaders(contracts, bh) the pool holds exactly one
\* uploader for each distinct contract id of contracts and no other; an
\* uploader whose contract was in the pool before is the same object, with
\* its queue, failure counter and data points untouched; every added
\* uploader is a new object whose worker has been started.
C13_RefreshRebuildsPool ==
    [][Refreshed =>
        /\ PoolFcids' = lastContracts'
        /\ Len(pool') = Cardinality(lastContracts')
        /\ \A i \in Range(pool) :
              uFcid[i] \in lastContracts' =>
                  /\ i \in Range(pool')
                  /\ uFcid'[i] = uFcid[i]
                  /\ uQueue'[i] = uQueue[i]
                  /\ uSignal'[i] = uSignal[i]
                  /\ uFailures'[i] = uFailures[i]
                  /\ uPoints'[i] = uPoints[i]
                  /\ upc'[i] = upc[i]
        /\ \A i \in Range(pool') :
              i \notin Range(pool) =>
                  /\ uFcid[i] = 0
                  /\ uFcid'[i] \notin PoolFcids
                  /\ upc[i] = "none" /\ upc'[i] = "wait"
                  /\ uQueue'[i] = 0 /\ ~uStopChan'[i]
        /\ \A i \in Range(pool') : uBh'[i] \in 1..MaxHeight]_vars

\* a call kept an uploader that has tracked a sector upload and added one for
\* a second contract
C13_Witness ==
    /\ refreshes >= 2
    /\ Len(pool) = 2
    /\ uPoints[pool[1]] = 1
    /\ upc[pool[2]] = "wait"
    /\ uFcid[pool[1]] # uFcid[pool[2]]

\* the uploader object was in the pool and RefreshUploaders dropped it
Dropped(i) == uFcid[i] # 0 /\ ~InPool(i)

\* C14: when RefreshUploaders drops an uploader from the pool, the stop
\* signal of the uploader is raised, and its worker eventually exits.
C14_DroppedIsStopped ==
    /\ [][\A i \in UploaderObjects :
            (Refreshed /\ InPool(i) /\ ~InPool(i)') => uStopChan'[i]]_vars
    /\ \A i \in UploaderObjects : Dropped(i) ~> (upc[i] = "exited")

\* the uploader objects with a sector RPC in progress on contract c
Executing(c) == {i \in UploaderObjects : upc[i] = "rpc" /\ uFcid[i] = c}

\* C16: at any time at most one sector upload RPC is in progress on a
\* contract, whatever shards were scheduled and whatever calls of
\* RefreshUploaders were made.
C16_OneRpcPerContract ==
    \A c \in PoolContracts : Cardinality(Executing(c)) <= 1

\* an uploader that was dropped and the uploader that replaced it for the
\* same contract: one executes a sector upload, the other waits for the lock
C16_Witness ==
    \E i, j \in UploaderObjects :
        /\ Dropped(i) /\ InPool(j)
        /\ uFcid[i] = uFcid[j]
        /\ upc[i] = "rpc" /\ upc[j] = "lock"

\* the coordinator of slab k receives an error from the worker of contract u
ReceivesError(k, u) ==
    /\ spc[k] = "collect"
    /\ wpc[u] = "busy"
    /\ wcur[u].sID = k
    /\ u \notin errs[k]
    /\ u \in errs'[k]

\* the contracts a launch for slab k may go to: in the pool, not excluded
\* and not used for the slab
UsableFor(k) == {u \in uploaders : u \notin excluded /\ u \notin used[k]}

\* C17: the error of a non-overdrive shard upload makes the coordinator
\* relaunch the same shard, on a contract of the pool that is not excluded,
\* was not used for the slab before and has not failed for it; the slab
\* fails on shard errors only when the relaunch finds no usable uploader.
C17_FailedShardRelaunched ==
    [][\A k \in Slabs :
        /\ \A u \in Contracts :
              ReceivesError(k, u) =>
                  IF wcur[u].overdrive
                  THEN spc'[k] = "collect"
                  ELSE spc'[k] = "relaunch" /\ lidx'[k] = wcur[u].sectorIndex
        /\ (spc[k] = "relaunch" /\ spc'[k] \notin {"relaunch", "panic"}) =>
              IF UsableFor(k) = {}
              THEN /\ spc'[k] = "finish"
                   /\ queue' = queue
              ELSE /\ spc'[k] = "collect"
                   /\ \E u \in UsableFor(k) :
                         /\ u \notin errs[k]
                         /\ queue' = [queue EXCEPT ![u] =
                               Append(@, [sID |-> k, sectorIndex |-> lidx[k],
                                          overdrive |-> FALSE])]
        /\ (spc[k] = "collect" /\ spc'[k] = "finish" /\ ~ctxDone) =>
              remaining'[k] = {}]_vars

\* Migrate returned the sectors of a slab after a host failed, with no
\* overdrive: the failed shard was relaunched on another contract
C17_Witness ==
    /\ MigrateReturned
    /\ retErr = "none"
    /\ errs[0] # {}
    /\ numLaunched[0] > TotalShards
    /\ \A i \in Shards : overdriving[0][i] = 0 /\ sectors[0][i] \notin errs[0] \cup {0}

\* the coordinator of slab k sets its one-shot flag in this step
PutsToken(k) == ~nextReadTriggered[k] /\ nextReadTriggered'[k]

\* the tokens on nextReadTrigger: it is a channel of capacity 1
TokensWaiting == IF nextReadTrigger THEN 1 ELSE 0

\* C18: a slab coordinator puts at most one token on nextReadTrigger in its
\* lifetime, and only when its remaining shards are <= maxOverdrive; every
\* read of the driver consumes a token, so the reads never exceed 1 (the
\* token of newUpload) plus the tokens of the coordinators, one per slab that
\* reached remaining <= maxOverdrive.
C18_OneTokenPerSlab ==
    /\ [](/\ reads + TokensWaiting <= 1 + tokensPut
          /\ tokensPut <= slabIndex)
    /\ [][/\ tokensPut' # tokensPut =>
                /\ tokensPut' = tokensPut + 1
                /\ ~nextReadTrigger /\ nextReadTrigger'
                /\ \E k \in Slabs :
                      /\ spc[k] = "collect"
                      /\ PutsToken(k)
                      /\ Cardinality(remaining'[k]) <= maxOverdrive
                      /\ \A j \in Slabs \ {k} :
                            nextReadTriggered'[j] = nextReadTriggered[j]
          /\ \A k \in Slabs :
                /\ PutsToken(k) => tokensPut' = tokensPut + 1
                /\ (nextReadTriggered[k] /\ ~nextReadTriggered'[k]) =>
                      spc'[k] = "done"
                /\ spc[k] = "done" => spc'[k] \in {"done", "panic"}
          /\ reads' # reads =>
                /\ reads' = reads + 1
                /\ nextReadTrigger /\ ~nextReadTrigger'
                /\ tokensPut' = tokensPut]_vars

\* with maxOverdrive = 0 the driver has read twice on the tokens of two slabs
\* that had no shard remaining, and once on the token of newUpload
C18_Witness ==
    /\ maxOverdrive = 0
    /\ reads = 3
    /\ tokensPut = 2
    /\ ReturnsObject

\* the place of uploader a in the sorted pool
Place(a) == CHOOSE i \in SortedUploaders : statOut.order[i] = a

\* the pool has been sorted by the estimates
SortedPool == statIn.call = "estimate" /\ statOut.done

\* C19 as stated: an uploader whose cached p90 is zero is treated as having
\* an infinite estimate: it never sorts ahead of an uploader with a non-zero
\* p90.
C19_ColdSortsBehind ==
    SortedPool =>
        \A a, b \in SortedUploaders :
            (statIn.p90x2[a] = 0 /\ statIn.p90x2[b] # 0) => Place(b) < Place(a)

\* C19: an uploader whose cached p90 is zero (or below 1 byte per ms) is
\* treated as having an infinite throughput: its estimate is 0, it never sorts
\* behind an uploader with a larger estimate, and it sorts ahead of every
\* uploader whose estimate is not 0.
C19_ColdSortsAhead ==
    SortedPool =>
        \A a, b \in SortedUploaders :
            IntOf(statIn.p90x2[a]) = 0 =>
                /\ Estimates[a] = 0
                /\ Estimates[b] > 0 => Place(a) < Place(b)

\* a cold uploader stands in front of an uploader that has a p90 and a
\* non-zero estimate
C19_Witness ==
    /\ SortedPool
    /\ \E a, b \in SortedUploaders :
          /\ statIn.p90x2[a] = 0
          /\ statIn.p90x2[b] >= 2
          /\ Estimates[b] > 0
          /\ Place(a) < Place(b)

\* C20: recording a sector upload's throughput in uploader.track and
\* computing a slab's upload speed and overdrive percentage never abort the
\* upload, for every elapsed time including 0 milliseconds.
C20_StatsNeverFail == ~statOut.panic

\* at most N - MinShards shards were lost
EnoughShards == Cardinality(lost) <= TotalShards - MinShards

\* C21: a slab that was encoded and encrypted under any key, and of which
\* any N - MinShards shards (or fewer) were lost, is recovered bit for bit
\* after Decrypt: Recover writes the data that was encoded and returns no
\* error, directly and after Reconstruct, and Reconstruct restores every
\* shard as Encode made it.
C21_CodecRoundTrip ==
    /\ (cpc = "done" /\ EnoughShards) => (written = plain /\ cerr = "none")
    /\ (cpc = "reconstructed" /\ EnoughShards) => bufs = Encode(plain)

\* a data shard was lost and the data was recovered after Reconstruct
C21_Witness ==
    /\ cpc = "done"
    /\ lost # {}
    /\ lost \subseteq DataShards
    /\ EnoughShards
    /\ bufs = Encode(plain)
    /\ written = plain
    /\ \E q \in 1..SlabBytes : plain[q] = 1

\* SectorRegion has returned
RegionReturned == ssIn.call = "SectorRegion" /\ ssOut # <<>>

\* minChunk = LEAF_SIZE * MinShards of the call
MinChunk == LeafSize * ssIn.MinShards

\* C22 as stated: the pair returned is the start of the region and its END,
\* ((offset / minChunk) * LEAF_SIZE,
\*  ((offset + length + minChunk - 1) / minChunk) * LEAF_SIZE).
C22_RegionIsStartAndEnd ==
    RegionReturned =>
        ssOut = <<(ssIn.Offset \div MinChunk) * LeafSize,
                  ((ssIn.Offset + ssIn.Length + MinChunk - 1) \div MinChunk) * LeafSize>>

\* C22: for every slice (offset, length) and MinShards, SectorRegion returns
\* the start of the region and its LENGTH: start = (offset / minChunk) *
\* LEAF_SIZE and end - start, where end is offset + length rounded up to a
\* whole chunk, in leaves: ((offset + length + minChunk - 1) / minChunk) *
\* LEAF_SIZE.  The sum offset + length and the difference are those of
\* uint32: both wrap at 2^32.
C22_RegionIsStartAndLength ==
    RegionReturned =>
        LET start == (ssIn.Offset \div MinChunk) * LeafSize
            sum == (ssIn.Offset + ssIn.Length) % Uint32
            end == CeilDiv(sum, MinChunk) * LeafSize
        IN  ssOut = <<start, (end - start + Uint32) % Uint32>>

\* a slice that starts in the second chunk and ends inside a chunk: the
\* region starts at a leaf that is not the first, its end is rounded up
C22_Witness ==
    /\ RegionReturned
    /\ ssIn.Offset >= MinChunk
    /\ ssIn.Offset + ssIn.Length < Uint32
    /\ (ssIn.Offset + ssIn.Length) % MinChunk # 0
    /\ ssOut[1] > 0
    /\ ssOut[1] + ssOut[2] = CeilDiv(ssIn.Offset + ssIn.Length, MinChunk) * LeafSize

\* the worker of u takes an upload from its queue in this step
Pops(u) == queue[u] # <<>> /\ queue'[u] = Tail(queue[u])

\* C23: a worker executes the shard uploads of its queue one at a time, in
\* the order they were scheduled: the queue changes only by an append at its
\* end or by the removal of its head, a worker that executes an upload takes
\* no other, and the upload it starts to execute is the head it removed.  A
\* head that is done when it is popped is skipped: the worker executes
\* nothing, and the step sends no response (the slab's in-flight count, its
\* errors and its sectors stay).
C23_FifoAndSkip ==
    [][\A u \in Contracts :
          /\ queue'[u] # queue[u] =>
                \/ Pops(u)
                \/ \E req \in ShardUploads : queue'[u] = Append(queue[u], req)
          /\ Pops(u) => wpc[u] # "busy"
          /\ (wpc'[u] = "busy" /\ wpc[u] # "busy") =>
                /\ Pops(u)
                /\ wcur'[u] = Head(queue[u])
                /\ ~Done(Head(queue[u]))
          /\ (Pops(u) /\ Done(Head(queue[u]))) =>
                /\ wpc'[u] # "busy"
                /\ wcur'[u] = NoReq
                /\ skipped'[u]
                /\ numInflight' = numInflight
                /\ errs' = errs
                /\ sectors' = sectors
          /\ skipped'[u] => (wpc'[u] # "busy" /\ wcur'[u] = NoReq)]_vars

\* a worker has skipped an upload whose shard another upload had completed:
\* the call is not cancelled, the slab still collects and counts the skipped
\* upload as in flight
C23_Witness ==
    \E u \in Contracts :
        /\ skipped[u]
        /\ wpc[u] = "drain"
        /\ wcur[u] = NoReq
        /\ ~ctxDone
        /\ \E k \in Slabs : spc[k] = "collect" /\ u \in used[k] /\ numInflight[k] > 0

\* the step executes a sector upload with this outcome
Executes(up) == executed' = executed + 1 /\ lastUpload' = up

\* what one executed sector upload does to the statistics of its uploader
TrackSteps ==
    [][\A up \in UploadOutcomes : Executes(up) =>
          /\ up.err = "nil" => consecutiveFailures' = 0
          /\ (up.err = "failed" /\ ~(up.overdrive /\ up.done)) =>
                /\ consecutiveFailures' = consecutiveFailures + 1
                /\ statsSpeed'.cnt = statsSpeed.cnt + 1
                /\ statsSpeed'.data =
                      [statsSpeed.data EXCEPT ![statsSpeed.cnt % RingLen] = 1]
          /\ ((up.err # "nil" /\ up.overdrive /\ up.done)
                \/ up.err = "ErrClosedStream") =>
                UNCHANGED <<consecutiveFailures, statsSpeed, lastTracked>>]_vars

\* the uploader is healthy exactly when the upload tracked last succeeded or
\* none was tracked
HealthyIffLastSucceeded == healthy <=> lastTracked # "failed"

\* C24: every sector upload that succeeds is tracked and resets the
\* consecutive-failure counter to 0; every failure that is tracked adds 1 to
\* it and records the sample 1 at the next place of the speed window; a
\* failed overdrive whose context is cancelled and a closed-stream error
\* change neither the counter nor the window.  So the uploader is healthy
\* exactly when the upload tracked last succeeded or none was tracked.
C24_TrackResetsAndCounts == TrackSteps /\ []HealthyIffLastSucceeded

\* after two tracked failures a cancelled overdrive failed and was not
\* tracked: the counter stands at 2 and the window holds the two samples
C24_Witness ==
    /\ lastUpload.err = "failed"
    /\ lastUpload.overdrive
    /\ lastUpload.done
    /\ lastTracked = "failed"
    /\ consecutiveFailures = 2
    /\ statsSpeed.cnt = 2
    /\ executed = 3

\* slab.overdrive has returned an upload
Yields == opc = "returned" /\ odOut # NoReq

\* C25: overdrive() yields a shard upload only when fewer shards remain than
\* maxOverdrive, at least overdriveTimeout has passed since the last
\* overdrive launch of the slab, and numInflight - remaining is below
\* maxOverdrive; when it yields nothing, nothing is launched.
C25_OverdriveGuards ==
    /\ [](Yields =>
            /\ Cardinality(remaining[0]) < maxOverdrive
            /\ sinceOverdrive >= overdriveTimeout
            /\ numInflight[0] - Cardinality(remaining[0]) < maxOverdrive)
    /\ [][(opc = "returned" /\ odOut = NoReq) =>
            UNCHANGED <<queue, signalNewUpload, used, numInflight, numLaunched,
                        overdriving, sinceOverdrive>>]_vars

\* the timeout has passed, a shard remains, and the overdrive upload was
\* launched: one more upload is in flight and the clock of the slab is reset
C25_Witness ==
    /\ opc = "reset"
    /\ odOut # NoReq
    /\ odOut.overdrive
    /\ overdriveTimeout > 0
    /\ overdriving[0][odOut.sectorIndex] > 0
    /\ \E u \in Contracts : queue[u] = <<odOut>>
    /\ sinceOverdrive = 0

\* the uploads of shard i of slab k that a worker holds, queued or executing
HeldUploads(k, i) ==
    {req \in ShardUploads :
        /\ req.sID = k
        /\ req.sectorIndex = i
        /\ \E u \in Contracts :
              \/ wpc[u] = "busy" /\ wcur[u] = req
              \/ \E j \in 1..Len(queue[u]) : queue[u][j] = req}

\* the overdrive goroutine gets an upload from slab.overdrive
OverdriveYields == opc = "timer" /\ opc' = "returned" /\ odOut' # NoReq

\* the overdrive goroutine has called slab.launch
OverdriveLaunched == opc = "returned" /\ opc' = "reset"

\* C26: the upload overdrive() yields is for a shard index that remains and
\* whose overdrive count is the least among the remaining indices, and it is
\* marked overdrive; what is launched is that upload; the context of an
\* upload is the context of its shard index, so from the first successful
\* response for an index on, every other upload of the index that a worker
\* still holds is done (cancelled).
C26_OverdrivePicksLeastAndShares ==
    /\ [][/\ OverdriveYields =>
                /\ odOut'.sID = 0
                /\ odOut'.overdrive
                /\ odOut'.sectorIndex \in remaining[0]
                /\ \A j \in remaining[0] :
                      overdriving[0][odOut'.sectorIndex] <= overdriving[0][j]
          /\ OverdriveLaunched =>
                \A u \in Contracts :
                    queue'[u] # queue[u] => queue'[u] = Append(queue[u], odOut)
          /\ \A i \in Shards :
                (sectors[0][i] = 0 /\ sectors'[0][i] # 0) =>
                    /\ i \in shardDone'[0]
                    /\ \A req \in HeldUploads(0, i)' : Done(req)']_vars
    /\ [](\A i \in Shards :
            sectors[0][i] # 0 => \A req \in HeldUploads(0, i) : Done(req))

\* shard i of a slab was overdriven, one of its uploads has succeeded and
\* filled the sector, and a worker still executes another upload of i, which
\* is cancelled although the call is not
C26_Witness ==
    \E k \in Slabs, i \in Shards, u \in Contracts :
        /\ spc[k] = "collect"
        /\ overdriving[k][i] > 0
        /\ \E j \in Shards : overdriving[k][j] > overdriving[k][i]
        /\ odOut # NoReq
        /\ odOut.sectorIndex = i
        /\ sectors[k][i] # 0
        /\ sectors[k][i] # u
        /\ wpc[u] = "busy"
        /\ wcur[u].sID = k
        /\ wcur[u].sectorIndex = i
        /\ ~ctxDone
        /\ Done(wcur[u])

\* the sum of the lengths of the slab slices of an object
RECURSIVE TotalLength(_)
TotalLength(slabs) ==
    IF slabs = <<>> THEN 0
    ELSE slabs[1].length + TotalLength(Tail(slabs))

\* C27: in the object Upload returns every slab slice has offset 0; every
\* slab but the last has the length of a whole slab, MinShards * SectorSize;
\* the last has the length of the read that made it, between 1 and a whole
\* slab; the lengths add up to the number of bytes the reader supplied.
C27_SliceLengths ==
    ReturnsObject =>
        /\ \A i \in 1..Len(object) :
              /\ object[i].offset = 0
              /\ i < Len(object) => object[i].length = MinShards * SectorSize
              /\ object[i].length >= 1
              /\ object[i].length <= MinShards * SectorSize
        /\ TotalLength(object) = byteCount

\* an object of a whole slab and a short final slab
C27_Witness ==
    /\ ReturnsObject
    /\ Len(object) = 2
    /\ object[1].length = MinShards * SectorSize
    /\ object[2].length < MinShards * SectorSize
    /\ TotalLength(object) = byteCount
    /\ readerEOF

(* ------------------------------- C28 --------------------------------- *)

\* the coordinator of slab k is inside the gate of uploadManager.uploader:
\* blocked in its select, or woken and about to read upload.ongoing again
AtGate(k) == spc[k] \in {"gatewait", "gatecheck"}

\* no goroutine of the call can take a step: the driver waits in its select,
\* every worker waits for a request and every coordinator waits or is done
Quiescent == ~ENABLED NextGate

\* C28: a slab coordinator blocked at the older-slabs gate is eventually
\* released once fewer than three older slabs remain in the ongoing list: no
\* wake-up on the conflating doneShardTrigger channel is lost, so the call
\* never comes to rest with a coordinator inside the gate that the list of
\* ongoing slabs would let through
C28_GateReleased ==
    \A k \in Slabs : (AtGate(k) /\ GateOpen(k)) => ~Quiescent

(* ------------------------------- C29 --------------------------------- *)

\* the step is a call of slabUpload.launch that enqueued an upload with
\* uploader u: the queue of u grew by the request
Launches(u) == Len(queue'[u]) > Len(queue[u])

\* the request the step enqueued with uploader u
Launched(u) == queue'[u][Len(queue'[u])]

\* the response loop of slab k goes on to slab.launch(resp.req)
GoesToRelaunch(k) == spc[k] # "relaunch" /\ spc'[k] = "relaunch"

\* C29: the response loop invokes launch only for shard indices still in the
\* slab's remaining set: a response sends the loop to the relaunch only for a
\* remaining shard and every upload it enqueues again is for a remaining
\* shard, so a late error of the cancelled original of a shard an overdrive
\* completed relaunches nothing, uses no further contract and cannot break
\* the loop
C29_LaunchOnlyRemaining ==
    [][/\ \A k \in Slabs :
              GoesToRelaunch(k) => lidx'[k] \in remaining'[k]
       /\ \A u \in Contracts :
              (Launches(u) /\ ~Launched(u).overdrive) =>
                  Launched(u).sectorIndex \in remaining[Launched(u).sID]]_vars

(* ------------------------------- C30 --------------------------------- *)

\* the final select of uploadSlab for slab k took its send case
\* (respChan <- resp) when Upload had run its deferred close(respChan)
SentOnClosed(k) == spc[k] = "respond" /\ respClosed /\ Panicked'

\* C30: no slab upload task ever sends on the object's slab-response channel
\* after Upload has closed it, on any return path of Upload and under any
\* interleaving of Upload's deferred close and cancel with the final select
\* of the slab task
C30_NoSendOnClosed == [][\A k \in Slabs : ~SentOnClosed(k)]_vars

(* ------------------------------- C31 --------------------------------- *)

\* the first read of Upload found io.EOF: the reader supplied zero bytes and
\* numSlabs = slabIndex = 0
ReadNothing == entry = "upload" /\ dpc = "loop" /\ numSlabs = 0

\* C31: Upload on a reader that supplies zero bytes terminates and returns an
\* object with no slabs, given a pool of at least N uploaders and no stop or
\* cancellation
C31_EmptyUploadReturns ==
    ReadNothing ~> (dpc = "returned" /\ retErr = "none" /\ object = <<>>)

(* ------------------------------- C32 --------------------------------- *)

\* an upload waits in the queue of uploader i and the stop signal of the
\* uploader has not been raised
Queued(i) == uQueue[i] > 0 /\ ~uStopChan[i]

\* the worker of uploader i stands at u.pop() with an upload in its queue
AtPop(i) == upc[i] = "pop" /\ uQueue[i] > 0

\* a worker that waits for the signal while an upload is queued has the token
\* of u.signalNewUpload to wake on
WakeUpKept ==
    \A i \in UploaderObjects : (uQueue[i] > 0 /\ upc[i] = "wait") => uSignal[i]

\* the life of a manager whose pool is set by one call of RefreshUploaders:
\* every uploader has a contract of its own
RefreshOnce ==
    \E contracts \in ContractLists, bh \in 1..MaxHeight :
        /\ refreshes = 0
        /\ RefreshUploaders(contracts, bh)

NextWorkers ==
    \/ RefreshOnce
    \/ Stop
    \/ \E i \in UploaderObjects : Schedule(i) \/ Uploader(i)

SpecWorkers == InitManager /\ [][NextWorkers]_vars

\* the Go scheduler runs every worker that can take a step
FairWorkers == SpecWorkers /\ \A i \in UploaderObjects : WF_vars(Uploader(i))

\* C32: every shard upload scheduled on an uploader whose stop signal has not
\* been raised is eventually popped by the worker: the single-slot signal
\* never loses a wake-up when schedule races with the worker finding its
\* queue empty, so the worker comes to its pop with the upload queued
C32_ScheduledIsPopped ==
    /\ []WakeUpKept
    /\ \A i \in UploaderObjects : Queued(i) ~> (AtPop(i) \/ uStopChan[i])

\* the worker of an uploader has executed an upload, found its queue empty
\* and gone back to wait; an upload was scheduled since and the token is there
C32_Witness ==
    \E i \in UploaderObjects :
        /\ upc[i] = "wait" /\ uPoints[i] > 0
        /\ Queued(i) /\ uSignal[i]

(* ------------------------------- C38 --------------------------------- *)

\* every slot of the window holds v but one, which holds a sample that is not
\* smaller: the window was filled with v and one more sample was tracked
OneMoreSample(v) ==
    /\ window.cnt > WindowLen
    /\ \E j \in DOMAIN window.data :
          /\ window.data[j] >= v
          /\ \A i \in DOMAIN window.data \ {j} : window.data[i] = v

\* every slot of the window holds v
FilledWith(v) == \A j \in DOMAIN window.data : window.data[j] = v

\* a.track(x) is called with a sample that is not smaller than v
TracksAtLeast(v) ==
    /\ tracks' = tracks + 1
    /\ window'.data[window.cnt % WindowLen] >= v

\* C38: successful shard completions never decrease the p90: when a window
\* of 20 slots is filled with one sample value v and a further sample that is
\* not smaller than v is tracked, recompute() yields a p90 that is not
\* smaller than the one it yielded before the sample
C38_P90NotDecreased ==
    [][\A v \in Samples :
          (FilledWith(v) /\ TracksAtLeast(v)) =>
              recompute(window').p90x2 >= recompute(window).p90x2]_vars

\* a window filled with a sample that is not zero, its p90 recomputed; a
\* larger sample was tracked and the p90 recomputed after that
C38_Witness ==
    \E v \in Samples \ {0} :
        /\ OneMoreSample(v)
        /\ \E j \in DOMAIN window.data : window.data[j] > v
        /\ tracks = 1
        /\ recomputed.done /\ recomputed.cnt = window.cnt
        /\ window.p90x2 = 2 * v

(* ------------------------------- C40 --------------------------------- *)

\* a.track(x) is called
Tracks == tracks' = tracks + 1

\* a.percentileP90() returns
ReadsP90 == p90Out' # p90Out

\* C40: track(x) writes x into slot cnt mod 20, increments cnt and leaves the
\* cached p90; the slots no sample was tracked into hold zero; p90() returns
\* what the most recent recompute() computed, or 0 if it was never called
C40_TrackAndCachedP90 ==
    /\ [](\A j \in DOMAIN window.data : j >= window.cnt => window.data[j] = 0)
    /\ [][Tracks =>
            /\ \E x \in Samples :
                  window'.data = [window.data EXCEPT ![window.cnt % WindowLen] = x]
            /\ window'.cnt = window.cnt + 1
            /\ window'.p90x2 = window.p90x2]_vars
    /\ [][ReadsP90 =>
            p90Out'.p90x2 = IF recomputed.done THEN recomputed.p90x2 ELSE 0]_vars

\* a new window: the p90 was recomputed when one sample was in, which gave
\* zero; more samples were tracked, so that the p90 of the samples is not
\* zero any more, and p90() returned the zero of the recompute
C40_Witness ==
    /\ window.cnt = MaxWindowTracks
    /\ \A j \in 0..(MaxWindowTracks - 1) : window.data[j] > 0
    /\ recomputed.done /\ recomputed.cnt = 1
    /\ Percentile(window.data, 90).x2 > 0
    /\ p90Out.done /\ p90Out.p90x2 = 0

(* ------------------------------- C39 --------------------------------- *)

\* stripedJoin has returned and was asked for bytes the data has
JoinedInRange ==
    /\ cpc = "joined"
    /\ joinIn.skip + joinIn.writeLen <= Len(plain)

\* C39: striping round trip: for any data of at most MinShards * SectorSize
\* bytes, splitting it across the data shards in stripes of LeafSize bytes
\* and joining the shards with a skip and a writeLen inside the data writes
\* exactly writeLen bytes, the bytes data[skip : skip + writeLen], and
\* returns no error
C39_StripingRoundTrip ==
    JoinedInRange =>
        /\ cerr = "none"
        /\ Len(written) = joinIn.writeLen
        /\ written = SubSeq(plain, joinIn.skip + 1, joinIn.skip + joinIn.writeLen)

\* data of more than one stripe per shard that ends inside a stripe, joined
\* from inside the first stripe of the second shard to the last byte: what
\* is written has a one and a zero in it
C39_Witness ==
    /\ JoinedInRange
    /\ Len(plain) = StripeBytes - 1
    /\ joinIn.skip = LeafSize + 1
    /\ joinIn.skip + joinIn.writeLen = Len(plain)
    /\ \E q \in 1..Len(written) : written[q] = 1
    /\ \E q \in 1..Len(written) : written[q] = 0

(* ------------------------------- C37 --------------------------------- *)

\* the mutex a task is about to lock ("none": its next step is no Lock)
Wanted(t) ==
    IF task[t] # Idle /\ StepOf(t)[1] = "lock" THEN StepOf(t)[2] ELSE "none"

\* the task waits in mu.Lock() for a mutex another task holds
Blocked(t) == Wanted(t) # "none" /\ holder[Wanted(t)] # "none"

\* every task of S waits for a mutex that a task of S holds
CircularWait(S) ==
    /\ S # {}
    /\ \A t \in S : Blocked(t) /\ holder[Wanted(t)] \in S

\* C37: no reachable state has tasks in a circular wait over the mutexes of
\* the manager, the upload, the slab coordinators, the uploader and the stats
\* windows: a coordinator that holds its own mutex in launch while enqueue
\* takes the mutexes of the manager and the upload, or waits at the gate,
\* never deadlocks with Stats, RefreshUploaders, Stop, finish,
\* finishSlabUpload or another coordinator
C37_NoCircularWait == \A S \in SUBSET Tasks : ~CircularWait(S)

\* the first coordinator waits at the gate inside launch with its mutex held
\* and its overdrive goroutine waits for that mutex; the caller holds the
\* mutex of the manager inside Stats and the second coordinator, inside
\* launch with its own mutex held, waits for it
C37_Witness ==
    /\ task["coordinator1"].fn = "launch"
    /\ StepOf("coordinator1")[1] = "gate"
    /\ holder["slab1"] = "coordinator1"
    /\ Blocked("timer1") /\ Wanted("timer1") = "slab1"
    /\ task["caller"].fn = "Stats" /\ holder["mgr"] = "caller"
    /\ task["coordinator2"].fn = "launch" /\ holder["slab2"] = "coordinator2"
    /\ Blocked("coordinator2") /\ Wanted("coordinator2") = "mgr"

(* ------------------------------- C33 --------------------------------- *)

\* the coordinator of slab k receives a successful response in this step and
\* goes on to slab.tryTriggerNextRead()
ReceivesSuccess(k) ==
    /\ spc[k] = "collect"
    /\ numInflight'[k] = numInflight[k] - 1
    /\ errs'[k] = errs[k]

\* C33: in an Upload, whenever a slab coordinator attempts its non-blocking
\* send on the next-read channel the channel is empty, so the send succeeds
\* and the token that allows the next slab to be read is never dropped
C33_TriggerNeverDropped ==
    [][\A k \in Slabs :
          (entry = "upload" /\ ReceivesSuccess(k)
                /\ TriesTrigger(k, remaining'[k])) =>
              /\ ~nextReadTrigger
              /\ nextReadTrigger'
              /\ nextReadTriggered'[k]]_vars

\* the coordinators of two slabs have each put their token with shards still
\* remaining, and the driver has read on both
C33_Witness ==
    /\ entry = "upload"
    /\ tokensPut = 2
    /\ reads = 3
    /\ \E k \in Slabs : nextReadTriggered[k] /\ remaining[k] # {}

(* ------------------------------- C34 --------------------------------- *)

\* the uploader objects of contract c whose worker loop (uploader.start) has
\* been started and has not returned
WorkerLoops(c) ==
    {i \in UploaderObjects : uFcid[i] = c /\ upc[i] \notin {"none", "exited"}}

\* C34: for every contract id, at most one uploader worker loop able to
\* execute sector uploads exists at any time, across any sequence of
\* RefreshUploaders calls, including one that removes a contract followed by
\* one that adds the same contract again
C34_OneWorkerPerContract ==
    \A c \in PoolContracts : Cardinality(WorkerLoops(c)) <= 1

(* ------------------------------- C35 --------------------------------- *)

\* uploadShards has returned for slab k, and its deferred finishSlabUpload
\* has run: the task of the slab sends its response, or Migrate has returned
ShardsReturned(k) ==
    \/ spc[k] = "respond"
    \/ entry = "migrate" /\ spc[k] = "done"

\* the step enqueues a shard upload of slab k on an uploader
LaunchesFor(k) == \E u \in Contracts : Launches(u) /\ Launched(u).sID = k

\* C35: after uploadShards has returned for a slab, the slab id is no longer
\* in the upload's ongoing list, every per-shard context of the slab is
\* cancelled, and no further shard upload of that slab is enqueued on any
\* uploader, in particular not by the slab's overdrive timer task
C35_NothingAfterReturn ==
    /\ [](\A k \in Slabs :
            ShardsReturned(k) =>
                /\ ~InOngoing(k)
                /\ \A i \in Shards : i \in shardDone[k])
    /\ [][\A k \in Slabs : ShardsReturned(k) => ~LaunchesFor(k)]_vars

(* ------------------------------- C36 --------------------------------- *)

\* a call of slab.overdrive by the timer task of slab k, made in this state
\* with the overdrive due, comes to the test of the overdrives in flight: the
\* task runs, the coordinator's mutex is free and the first test passes
\* (uint64(len(s.remaining)) < s.mgr.maxOverdrive)
EvaluatesInflight(k) ==
    /\ tpc[k] = "idle"
    /\ MutexFree(k)
    /\ Cardinality(remaining[k]) < maxOverdrive

\* C36: whenever overdrive() evaluates numInflight - remaining, numInflight
\* is at least the number of remaining shards, so the unsigned subtraction
\* never wraps around, in every interleaving of the timer task with receive
\* and relaunch in the response loop
C36_InflightCoversRemaining ==
    \A k \in Slabs :
        EvaluatesInflight(k) => numInflight[k] >= Cardinality(remaining[k])

====
